---- MODULE Spec2Model ----
(***************************************************************************)
(* A model of the 9P2000 request engine of g9ptools (fileserver.FileServer) *)
(* over the in-memory tree (ramtree).  The engine state is the fid table,   *)
(* the live-tag set and the tree; fid paths are Go slices, modelled with    *)
(* their backing arrays because append() writes through shared arrays.      *)
(***************************************************************************)
EXTENDS Integers, Sequences, FiniteSets, TLC

\* ------------------------------------------------------------------ bounds
NumFids == 3          \* fids the client chooses from: 0 .. NumFids-1
MaxNames == 1         \* longest name vector of a Twalk in Spec
MaxWalkNames == 3     \* longest name vector of a Twalk in SpecWalk
MaxPathLen == 3       \* longest fid path the model follows
NumTags == 2          \* tags the client chooses from: 1 .. NumTags
MaxTasks == 3         \* requests issued in one behaviour of the task model
MaxReqs == 4          \* requests served in one behaviour of Spec
MaxWalkReqs == 3      \* requests served in one behaviour of SpecWalk
MaxVersionReqs == 3   \* requests served in one behaviour of SpecVersion
MaxCreateReqs == 3    \* requests served in one behaviour of SpecCreate
MaxReadReqs == 4      \* requests served in one behaviour of SpecRead
MaxIOReqs == 4        \* requests served in one behaviour of SpecIO
MaxStatReqs == 4      \* requests served in one behaviour of SpecStat
MaxDirReqs == 6       \* requests served in one behaviour of SpecDir
MaxClientReqs == 7    \* requests served in one behaviour of SpecClient
MaxLockReqs == 3      \* requests served alone before the tasks of SpecLock start

FidSet == 0 .. (NumFids - 1)
Tags == 1 .. NumTags
FirstTag == CHOOSE t \in Tags : \A u \in Tags : t <= u
ArrIds == 1 .. (NumFids + 1)
HandleIds == 1 .. NumFids
TaskIds == 1 .. MaxTasks

\* ---------------------------------------------------- protocol constants
OREAD == 0
OWRITE == 1
ORDWR == 2
OEXEC == 3
OpenModes == {OREAD, OWRITE, ORDWR, OEXEC}

\* a flag bit of an open mode, above the two bits that permCheck looks at
OTRUNC == 16

Users == {"glen", "eve"}
Services == {"main", "nosuch"}
WalkNames == {".", "..", "a", "b", "f"}

\* ------------------------------------------------------------ the RAM tree
\* permissions of the entities of the initial tree (octal 0777, 0755, 0644, 0700)
RootPerms == 7 * 64 + 7 * 8 + 7
PermsA == 7 * 64 + 5 * 8 + 5
PermsF == 6 * 64 + 4 * 8 + 4
PermsB == 7 * 64

EmptyTree == [n \in {} |-> 0]

\* NewRAMTree / NewRAMFile: the fields the engine reads.  id is the value nextID
\* returned; time.Now() at construction is time 0; content is the byte slice of
\* a file, nil at first.
NewRAMTree(id, name, permissions, user, group, children) ==
    [dir |-> TRUE, id |-> id, name |-> name, user |-> user, group |-> group, muser |-> user,
     permissions |-> permissions, version |-> 0, mtime |-> 0, opens |-> 0, tree |-> children,
     content |-> <<>>]

NewRAMFile(id, name, permissions, user, group) ==
    [dir |-> FALSE, id |-> id, name |-> name, user |-> user, group |-> group, muser |-> user,
     permissions |-> permissions, version |-> 0, mtime |-> 0, opens |-> 0, tree |-> EmptyTree,
     content |-> <<>>]

\* what file f holds when the server starts
InitContent == <<1, 2>>

\* The tree the server starts from: / (id 0) holds directory a (1) and file f (2),
\* a holds directory b (3).  Ids are the Qid paths handed out by nextID.
InitEnts ==
    [e \in 0 .. 3 |->
        CASE e = 0 -> NewRAMTree(0, "/", RootPerms, "glen", "sys",
                                 [n \in {"a", "f"} |-> IF n = "a" THEN 1 ELSE 2])
          [] e = 1 -> NewRAMTree(1, "a", PermsA, "glen", "sys", [n \in {"b"} |-> 3])
          [] e = 2 -> [NewRAMFile(2, "f", PermsF, "glen", "sys") EXCEPT !.content = InitContent]
          [] e = 3 -> NewRAMTree(3, "b", PermsB, "glen", "sys", EmptyTree)]

\* Roots of ramfs/server.go: the one service name mapped to the root directory
Roots == [s \in {"main"} |-> 0]

\* bit k of a permission word
Bit(permissions, k) == (permissions \div (2 ^ k)) % 2 = 1

permCheck_NoOwnerShift(owner, permissions, mode) ==
    CASE mode % 4 = OREAD -> Bit(permissions, 2)
      [] mode % 4 = OWRITE -> Bit(permissions, 1)
      [] mode % 4 = ORDWR -> Bit(permissions, 2) /\ Bit(permissions, 1)
      [] mode % 4 = OEXEC -> Bit(permissions, 0)

permCheck(owner, permissions, mode) ==
    LET offset == IF owner THEN 6 ELSE 0 IN
    CASE mode % 4 = OREAD -> Bit(permissions, 2 + offset)
      [] mode % 4 = OWRITE -> Bit(permissions, 1 + offset)
      [] mode % 4 = ORDWR -> Bit(permissions, 2 + offset) /\ Bit(permissions, 1 + offset)
      [] mode % 4 = OEXEC -> Bit(permissions, offset)

\* File.Open succeeds (RAMTree.Open, RAMFile.Open)
CanOpen(E, e, user, mode) == permCheck(E[e].user = user, E[e].permissions, mode)

Qid(E, e) == [type |-> IF E[e].dir THEN "QTDIR" ELSE "QTFILE", version |-> E[e].version, path |-> E[e].id]

\* RAMTree.Walk: access denied, or the child called name, or nil
DirWalk(E, d, user, name) ==
    IF ~permCheck(E[d].user = user, E[d].permissions, OEXEC)
    THEN [err |-> TRUE, found |-> FALSE, e |-> d]
    ELSE IF name \in DOMAIN E[d].tree
         THEN [err |-> FALSE, found |-> TRUE, e |-> E[d].tree[name]]
         ELSE [err |-> FALSE, found |-> FALSE, e |-> d]

\* RAMTree.Remove: the error string, "" on success.  (version is a uint32; it
\* grows by one per removal and the tree has three removable entities.)
RemoveErr(E, d, user, other) ==
    IF ~permCheck(E[d].user = user, E[d].permissions, OWRITE) THEN "access denied"
    ELSE IF \E n \in DOMAIN E[d].tree : E[d].tree[n] = other
         THEN IF E[other].dir /\ DOMAIN E[other].tree # {} THEN "directory not empty" ELSE ""
         ELSE "no such file"

DirRemove(E, d, user, other) ==
    IF RemoveErr(E, d, user, other) # "" THEN E
    ELSE LET keep == {n \in DOMAIN E[d].tree : E[d].tree[n] # other} IN
         [E EXCEPT ![d].tree = [n \in keep |-> E[d].tree[n]],
                   ![d].version = @ + 1]

\* A FileMode of a Tcreate is a 32-bit word, held as the set of its one bits
\* (bit 31 is DMDIR); & is intersection and ^ the complement in Bits32.
Bits32 == 0 .. 31
DMDIR == 31
HighBit == 30
DMAPPEND == 30

\* the one bits of the 32-bit word that the int32 n is the bit pattern of
BitsOf(n) == {k \in 0 .. 30 : Bit(n, k)} \cup (IF n < 0 THEN {DMDIR} ELSE {})

\* the int32 whose bit pattern has the one bits S
ToInt(S) ==
    LET sum[k \in 0 .. 31] ==
            IF k = 31 THEN (IF k \in S THEN (0 - 2 ^ 30) - 2 ^ 30 ELSE 0)
            ELSE (IF k \in S THEN 2 ^ k ELSE 0) + sum[k + 1] IN
    sum[0]

Octal777 == BitsOf(7 * 64 + 7 * 8 + 7)
Octal666 == BitsOf(6 * 64 + 6 * 8 + 6)

\* RAMTree.Create, lines 187-194: the mode the new entity gets
CreateMask_NoParent(perms, parent) == perms

CreateMask(perms, parent) ==
    IF DMDIR \in perms
    THEN perms \cap ((Bits32 \ Octal777) \cup (parent \cap Octal777))
    ELSE perms \cap ((Bits32 \ Octal666) \cup (parent \cap Octal666))

NextID_Stuck(E) == 0

\* nextID returns globalID and adds one to it.  Every entity ever made stays in
\* E, so globalID is their number.

NextID(E) == Cardinality(DOMAIN E)

\* the object a constructor allocates: one that is no entity yet
NewEnt(E) == 1 + CHOOSE n \in DOMAIN E : \A e \in DOMAIN E : e <= n

CreateErr_NoPermCheck(E, d, user, name) ==
    IF name \in DOMAIN E[d].tree THEN "file already exists" ELSE ""

\* RAMTree.Create: the error string, "" on success
CreateErr(E, d, user, name) ==
    IF ~permCheck(E[d].user = user, E[d].permissions, OWRITE) THEN "access denied"
    ELSE IF name \in DOMAIN E[d].tree THEN "file already exists"
    ELSE ""

\* RAMTree.Create: the new entity belongs to the owner of the directory; the
\* entity keeps the bits below DMDIR, its kind says whether DMDIR was asked for
DirCreate_AlwaysFile(E, d, user, name, perms) ==
    IF CreateErr(E, d, user, name) # "" THEN E
    ELSE [e \in DOMAIN E \cup {NewEnt(E)} |->
             IF e = NewEnt(E)
             THEN NewRAMFile(NextID(E), name, ToInt(CreateMask(perms, BitsOf(E[d].permissions))),
                             E[d].user, E[d].group)
             ELSE IF e = d
             THEN [E[d] EXCEPT !.tree = [x \in DOMAIN E[d].tree \cup {name} |->
                                            IF x = name THEN NewEnt(E) ELSE E[d].tree[x]],
                               !.version = @ + 1]
             ELSE E[e]]

DirCreate(E, d, user, name, perms) ==
    IF CreateErr(E, d, user, name) # "" THEN E
    ELSE LET n == NewEnt(E)
             m == ToInt(CreateMask(perms, BitsOf(E[d].permissions)))
             new == IF DMDIR \in perms
                    THEN NewRAMTree(NextID(E), name, m, E[d].user, E[d].group, EmptyTree)
                    ELSE NewRAMFile(NextID(E), name, m, E[d].user, E[d].group) IN
         [e \in DOMAIN E \cup {n} |->
             IF e = n THEN new
             ELSE IF e = d
             THEN [E[d] EXCEPT !.tree = [x \in DOMAIN E[d].tree \cup {name} |->
                                            IF x = name THEN n ELSE E[d].tree[x]],
                               !.version = @ + 1]
             ELSE E[e]]

\* ------------------------------------------------------- FilePath (a Go slice)
\* A FilePath value is a slice header [arr, len] into a backing array
\* arrays[arr] = [cap, elems]; elems holds the slots written so far.
NoArray == [cap |-> 0, elems |-> <<>>]

Path(A, loc) == SubSeq(A[loc.arr].elems, 1, loc.len)

Current(A, loc) == A[loc.arr].elems[loc.len]

FilePathParent_LastAtRoot(A, loc) ==
    IF loc.len = 1 THEN A[loc.arr].elems[1] ELSE A[loc.arr].elems[loc.len]

FilePathParent(A, loc) ==
    IF loc.len = 1 THEN A[loc.arr].elems[loc.len] ELSE A[loc.arr].elems[loc.len - 1]

\* the array ids some bound fid refers to
UsedArrs(F) == {F[f].location.arr : f \in DOMAIN F}

FreeArr(F, cur) == CHOOSE a \in ArrIds \ (UsedArrs(F) \cup cur) :
                       \A b \in ArrIds \ (UsedArrs(F) \cup cur) : a <= b

\* FilePath{root}: a fresh array of length and capacity one
NewPath(F, A, e) ==
    LET a == FreeArr(F, {}) IN
    [arrays |-> [A EXCEPT ![a] = [cap |-> 1, elems |-> <<e>>]], loc |-> [arr |-> a, len |-> 1]]

\* append(newloc, e): writes in place when the array has room, else moves to a
\* fresh array of twice the capacity (Go's growth for small slices)
SliceAppend(F, A, loc, e) ==
    IF loc.len < A[loc.arr].cap
    THEN [arrays |-> [A EXCEPT ![loc.arr].elems =
                         IF loc.len < Len(@) THEN [@ EXCEPT ![loc.len + 1] = e] ELSE Append(@, e)],
          loc |-> [arr |-> loc.arr, len |-> loc.len + 1]]
    ELSE LET a == FreeArr(F, {loc.arr}) IN
         [arrays |-> [A EXCEPT ![a] = [cap |-> 2 * A[loc.arr].cap,
                                       elems |-> Append(Path(A, loc), e)]],
          loc |-> [arr |-> a, len |-> loc.len + 1]]

Max(S) == CHOOSE x \in S : \A y \in S : y <= x

\* Arrays no fid refers to are garbage, and so are the slots beyond the longest
\* slice into an array: no later read can see them.
Collect(F, A) ==
    [a \in ArrIds |->
        IF a \notin UsedArrs(F) THEN NoArray
        ELSE LET top == Max({F[f].location.len : f \in {g \in DOMAIN F : F[g].location.arr = a}}) IN
             [cap |-> A[a].cap, elems |-> SubSeq(A[a].elems, 1, top)]]

\* ------------------------------------------------------------ the fid table
NoHandle == 0

\* &State{service, username, location}
NewState(service, username, loc) ==
    [location |-> loc, open |-> NoHandle, mode |-> 0, service |-> service, username |-> username]

Bind(F, fid, s) == [f \in DOMAIN F \cup {fid} |-> IF f = fid THEN s ELSE F[f]]

Unbind(F, fid) == [f \in DOMAIN F \ {fid} |-> F[f]]

\* what a client can observe of the fid table: each fid's path, handle, mode, user
View(F, A) ==
    [f \in DOMAIN F |-> [path |-> Path(A, F[f].location), open |-> F[f].open, mode |-> F[f].mode,
                         service |-> F[f].service, username |-> F[f].username]]

\* ------------------------------------------------------------------ replies
NoReply == [type |-> "none", ename |-> "", qids |-> <<>>]
Reply(type) == [type |-> type, ename |-> "", qids |-> <<>>]
ReplyQids(type, qids) == [type |-> type, ename |-> "", qids |-> qids]
Rerror(ename) == [type |-> "Rerror", ename |-> ename, qids |-> <<>>]

\* what a handler body leaves behind: the engine state and its return value
Result(F, A, E, H, reply) ==
    [Fids |-> F, arrays |-> Collect(F, A), ents |-> E, handles |-> H, reply |-> reply,
     panic |-> FALSE, over |-> FALSE]

\* ------------------------------------------------------------ handler bodies
\* Each body is the code between the handler's lock acquisition and its return.

\* The OpenFile values.  handles[h] is "open" from File.Open to Close; a closed
\* handle stays visible until the next request enters and is garbage after it.
\* buffer is RAMOpenTree.buffer, nil from Open until the first Seek.
FreeHandle == [e |-> 0, st |-> "free", offset |-> 0, buffer |-> <<>>]

Purge(H) == [h \in HandleIds |-> IF H[h].st = "closed" THEN FreeHandle ELSE H[h]]

NewHandle(H) == CHOOSE h \in HandleIds : H[h].st = "free" /\ \A g \in HandleIds : H[g].st = "free" => h <= g

\* File.Open on the entity: a directory counts its open handles (RAMTree.opens)
OpenHandle(E, H, e) ==
    [ents |-> IF E[e].dir THEN [E EXCEPT ![e].opens = @ + 1] ELSE E,
     handles |-> [H EXCEPT ![NewHandle(H)] = [e |-> e, st |-> "open", offset |-> 0, buffer |-> <<>>]],
     h |-> NewHandle(H)]

\* OpenFile.Close
CloseHandle(E, H, h) ==
    [ents |-> IF E[H[h].e].dir THEN [E EXCEPT ![H[h].e].opens = @ - 1] ELSE E,
     handles |-> [H EXCEPT ![h].st = "closed"]]

\* Walk, lines 263-267: x, err := root.Open(user, OEXEC); x.Close().  The probe
\* handle is closed on the spot and, held by nothing but the local x, is gone
\* at once.
Discard(c, h) == [ents |-> c.ents, handles |-> [c.handles EXCEPT ![h] = FreeHandle]]

Probe(E, H, e) ==
    Discard(CloseHandle(OpenHandle(E, H, e).ents, OpenHandle(E, H, e).handles, NewHandle(H)),
            NewHandle(H))

\* FileServer.Attach
DoAttach_Overwrite(F, A, E, H, fid, uname, aname) ==
    IF aname \notin DOMAIN Roots THEN Result(F, A, E, H, Rerror("no such service"))
    ELSE LET p == NewPath(F, A, Roots[aname]) IN
         Result(Bind(F, fid, NewState(aname, uname, p.loc)), p.arrays, E, H,
                ReplyQids("Rattach", <<Qid(E, Roots[aname])>>))

DoAttach(F, A, E, H, fid, uname, aname) ==
    IF fid \in DOMAIN F THEN Result(F, A, E, H, Rerror("fid already in use"))
    ELSE IF aname \notin DOMAIN Roots THEN Result(F, A, E, H, Rerror("no such service"))
    ELSE LET p == NewPath(F, A, Roots[aname]) IN
         Result(Bind(F, fid, NewState(aname, uname, p.loc)), p.arrays, E, H,
                ReplyQids("Rattach", <<Qid(E, Roots[aname])>>))

\* Walk, lines 220-234: the checks before any name is looked at
WalkPre_NoOpenCheck(F, fid, newfid) ==
    IF fid \notin DOMAIN F THEN "no such fid"
    ELSE IF newfid \in DOMAIN F THEN "fid already in use"
    ELSE ""

WalkPre(F, fid, newfid) ==
    IF fid \notin DOMAIN F THEN "no such fid"
    ELSE IF F[fid].open # NoHandle THEN "fid cannot be open for walk"
    ELSE IF newfid \in DOMAIN F THEN "fid already in use"
    ELSE ""

\* Walk, lines 300-307: the element is appended to newloc and its qid reported
WalkReport(F, E, w, root, addToLoc) ==
    LET ap == IF addToLoc THEN SliceAppend(F, w.arrays, w.loc, root)
              ELSE [arrays |-> w.arrays, loc |-> w.loc] IN
    [w EXCEPT !.root = root, !.arrays = ap.arrays, !.loc = ap.loc,
              !.qids = Append(@, Qid(E, root)),
              !.over = @ \/ ap.loc.len > MaxPathLen]

\* Walk, lines 268-298: the turn of the loop after the probe
WalkTurn(F, E, user, w, name) ==
    IF name = "." THEN WalkReport(F, E, w, w.root, FALSE)
    ELSE IF name = ".."
         THEN IF w.loc.len > 1
              THEN WalkReport(F, E, [w EXCEPT !.loc.len = @ - 1],
                              FilePathParent(w.arrays, w.loc), FALSE)
              ELSE WalkReport(F, E, w, FilePathParent(w.arrays, w.loc), TRUE)
    ELSE IF ~E[w.root].dir THEN [w EXCEPT !.stop = TRUE]
    ELSE IF DirWalk(E, w.root, user, name).err \/ ~DirWalk(E, w.root, user, name).found
         THEN [w EXCEPT !.stop = TRUE]
         ELSE WalkReport(F, E, w, DirWalk(E, w.root, user, name).e, TRUE)

\* Walk, lines 262-298: one turn of the loop over r.Names
WalkStep(F, E, user, w, name) ==
    IF ~CanOpen(E, w.root, user, OEXEC) THEN [w EXCEPT !.stop = TRUE]
    ELSE CHOOSE r \in {WalkTurn(F, E, user, [w EXCEPT !.ents = x.ents, !.handles = x.handles], name) :
                           x \in {Probe(w.ents, w.handles, w.root)}} : TRUE

RECURSIVE WalkLoop(_, _, _, _, _, _)
WalkLoop(F, E, user, names, i, w) ==
    IF i > Len(names) \/ w.stop THEN w
    ELSE CHOOSE r \in {WalkLoop(F, E, user, names, i + 1, v) :
                           v \in {WalkStep(F, E, user, w, names[i])}} : TRUE

\* FileServer.Walk
DoWalk(F, A, E, H, fid, newfid, names) ==
    IF WalkPre(F, fid, newfid) # "" THEN Result(F, A, E, H, Rerror(WalkPre(F, fid, newfid)))
    ELSE LET s == F[fid] IN
    IF names = <<>>
    THEN Result(Bind(F, newfid, NewState(s.service, s.username, s.location)), A, E, H,
                ReplyQids("Rwalk", <<>>))
    ELSE IF ~E[Current(A, s.location)].dir THEN Result(F, A, E, H, Rerror("fid not dir"))
    ELSE LET w == WalkLoop(F, E, s.username, names, 1,
                           [root |-> Current(A, s.location), loc |-> s.location, arrays |-> A,
                            ents |-> E, handles |-> H,
                            qids |-> <<>>, stop |-> FALSE, over |-> FALSE])
             F2 == IF w.stop THEN F
                   ELSE Bind(F, newfid, NewState(s.service, s.username, w.loc)) IN
         [Result(F2, w.arrays, w.ents, w.handles, ReplyQids("Rwalk", w.qids))
             EXCEPT !.over = w.over]

\* FileServer.Open
DoOpen(F, A, E, H, fid, mode) ==
    IF fid \notin DOMAIN F THEN Result(F, A, E, H, Rerror("no such fid"))
    ELSE IF F[fid].open # NoHandle THEN Result(F, A, E, H, Rerror("already open"))
    ELSE LET l == Current(A, F[fid].location) IN
         IF ~CanOpen(E, l, F[fid].username, mode) THEN Result(F, A, E, H, Rerror("access denied"))
         ELSE LET o == OpenHandle(E, H, l) IN
              Result([F EXCEPT ![fid].open = o.h, ![fid].mode = mode], A,
                     o.ents, o.handles, ReplyQids("Ropen", <<Qid(E, l)>>))

\* FileServer.Create.  The entity is created before it is opened: when the open
\* is refused the entity stays and the fid is as it was.
DoCreate(F, A, E, H, fid, name, perms, mode) ==
    IF fid \notin DOMAIN F THEN Result(F, A, E, H, Rerror("no such fid"))
    ELSE IF F[fid].open # NoHandle THEN Result(F, A, E, H, Rerror("already open"))
    ELSE IF name \in {".", ".."} THEN Result(F, A, E, H, Rerror("illegal name"))
    ELSE LET s == F[fid]
             cur == Current(A, s.location) IN
    IF ~E[cur].dir THEN Result(F, A, E, H, Rerror("not a directory"))
    ELSE IF CreateErr(E, cur, s.username, name) # ""
         THEN Result(F, A, E, H, Rerror(CreateErr(E, cur, s.username, name)))
    ELSE LET E2 == DirCreate(E, cur, s.username, name, perms)
             l == NewEnt(E) IN
    IF ~CanOpen(E2, l, s.username, mode) THEN Result(F, A, E2, H, Rerror("access denied"))
    ELSE LET o == OpenHandle(E2, H, l)
             ap == SliceAppend(F, A, s.location, l) IN
         [Result([F EXCEPT ![fid].location = ap.loc, ![fid].open = o.h, ![fid].mode = mode],
                 ap.arrays, o.ents, o.handles, ReplyQids("Rcreate", <<Qid(E2, l)>>))
             EXCEPT !.over = ap.loc.len > MaxPathLen]

\* Clunk and Remove, lines 580-583 and 615-618: the handle is closed if open
CloseIfOpen_Leak(E, H, s) == [ents |-> E, handles |-> H]

CloseIfOpen(E, H, s) ==
    IF s.open # NoHandle THEN CloseHandle(E, H, s.open) ELSE [ents |-> E, handles |-> H]

\* FileServer.Clunk
DoClunk(F, A, E, H, fid) ==
    IF fid \notin DOMAIN F THEN Result(F, A, E, H, Rerror("no such fid"))
    ELSE LET c == CloseIfOpen(E, H, F[fid]) IN
         Result(Unbind(F, fid), A, c.ents, c.handles, Reply("Rclunk"))

\* Remove, line 611: defer delete(fs.Fids, r.Fid)
RemoveUnbind_OnSuccessOnly(F, A, E, fid) ==
    IF F[fid].location.len > 1
       /\ RemoveErr(E, FilePathParent(A, F[fid].location), F[fid].username,
                    Current(A, F[fid].location)) # ""
    THEN F ELSE Unbind(F, fid)

RemoveUnbind(F, A, E, fid) == Unbind(F, fid)

\* FileServer.Remove.  p.(Dir) panics when the parent slot holds a file; the
\* deferred delete and unlocks still run.
DoRemove(F, A, E, H, fid) ==
    IF fid \notin DOMAIN F THEN Result(F, A, E, H, Rerror("no such fid"))
    ELSE LET s == F[fid]
             c == CloseIfOpen(E, H, s)
             F2 == RemoveUnbind(F, A, E, fid)
             cur == Current(A, s.location)
             p == FilePathParent(A, s.location) IN
         IF s.location.len <= 1 THEN Result(F2, A, c.ents, c.handles, Reply("Rremove"))
         ELSE IF ~E[p].dir
              THEN [Result(F2, A, c.ents, c.handles, NoReply) EXCEPT !.panic = TRUE]
              ELSE Result(F2, A, DirRemove(c.ents, p, s.username, cur), c.handles,
                          Reply("Rremove"))

\* FileServer.Flush has no body beyond fs.flush(r.OldTag), which works on the tags
DoFlush(F, A, E, H) == Result(F, A, E, H, Reply("Rflush"))

\* ------------------------------------------------------ Tstat, Tread, Twrite
\* time.Now() of every write after the server started
Now == 1

\* len() of the strings that names, users and groups are
StrLen(str) ==
    CASE str \in {"/", "a", "b", "f", "g", "n", "."} -> 1
      [] str = ".." -> 2
      [] str \in {"eve", "sys"} -> 3
      [] str = "glen" -> 4

\* RAMTree.Stat and RAMFile.Stat.  Mode is the set of its one bits; a file reports
\* its user as GID and MUID; Type and Dev are never set; the access time, which
\* no reply but Rstat shows, is held at the time of construction.
Stat(E, e) ==
    [type |-> 0, dev |-> 0, qid |-> Qid(E, e),
     mode |-> BitsOf(E[e].permissions) \cup (IF E[e].dir THEN {DMDIR} ELSE {}),
     atime |-> 0, mtime |-> E[e].mtime,
     length |-> Len(E[e].content),
     name |-> E[e].name, uid |-> E[e].user,
     gid |-> IF E[e].dir THEN E[e].group ELSE E[e].user,
     muid |-> IF E[e].dir THEN E[e].muser ELSE E[e].user]

\* Stat.Encode: size[2] type[2] dev[4] qid[13] mode[4] atime[4] mtime[4] length[8]
\* and four strings, each with a two-byte length
StatFixedLen == 49

EncodedStatLen(st) ==
    StatFixedLen + StrLen(st.name) + StrLen(st.uid) + StrLen(st.gid) + StrLen(st.muid)

\* FileServer.Stat
DoStat(F, A, E, H, fid) ==
    IF fid \notin DOMAIN F THEN Result(F, A, E, H, Rerror("no such fid"))
    ELSE Result(F, A, E, H,
                [type |-> "Rstat", ename |-> "", qids |-> <<>>,
                 stat |-> Stat(E, Current(A, F[fid].location))])

\* the children of a directory in the order of its slice: the order they were
\* added in, which is the order of their construction
RECURSIVE InOrder(_)
InOrder(S) ==
    IF S = {} THEN <<>>
    ELSE <<CHOOSE m \in S : \A x \in S : m <= x>>
             \o InOrder(S \ {CHOOSE m \in S : \A x \in S : m <= x})

Children(E, d) == InOrder({E[d].tree[n] : n \in DOMAIN E[d].tree})

\* RAMOpenTree.update: the buffer is the encoded Stats of the children one after
\* the other; each is kept as the child and the length of its encoding
Buffer(E, d) ==
    [k \in 1 .. Len(Children(E, d)) |->
        [e |-> Children(E, d)[k], len |-> EncodedStatLen(Stat(E, Children(E, d)[k]))]]

RECURSIVE BufferLen(_)
BufferLen(buf) == IF buf = <<>> THEN 0 ELSE buf[1].len + BufferLen(Tail(buf))

\* buffer[lo:hi]: of each record the part [from, to) that lies in the window
RECURSIVE Window(_, _, _)
Window(buf, lo, hi) ==
    IF buf = <<>> \/ hi <= 0 THEN <<>>
    ELSE (IF lo < buf[1].len /\ lo < hi
          THEN <<[e |-> buf[1].e, len |-> buf[1].len, from |-> IF lo > 0 THEN lo ELSE 0,
                  to |-> IF hi < buf[1].len THEN hi ELSE buf[1].len]>>
          ELSE <<>>)
         \o Window(Tail(buf), lo - buf[1].len, hi - buf[1].len)

\* (&protocol.ReadResponse{}).EncodedLength() and protocol.HeaderSize: an Rread
\* is size[4] type[1] tag[2], then count[4] and the data
HeaderSize == 7
EmptyReadResponseLength == 4

\* Read, lines 480-483: the length of the buffer handed to OpenFile.Read
ReadCount(M, count) ==
    IF M - EmptyReadResponseLength + HeaderSize > count THEN count
    ELSE M - EmptyReadResponseLength + HeaderSize

Rread(count, data) == [type |-> "Rread", ename |-> "", qids |-> <<>>, count |-> count, data |-> data]

\* lines 477-479 of Read: the test of the mode the fid was opened with
ReadMode(mode) == mode \in {OREAD, ORDWR}

\* RAMOpenTree.Seek: the offset must be 0 or the cursor
TreeSeek(h, offset) ==
    IF offset # 0 /\ offset # h.offset THEN "can only seek to 0 on directory" ELSE ""

\* RAMOpenFile.Seek
FileSeek(E, h, offset) == IF offset > Len(E[h.e].content) THEN "seek past length" ELSE ""

\* RAMOpenTree.Read after Seek(offset), with a buffer p of n bytes.  The length
\* is computed in uint64: when the cursor lies beyond the fresh buffer the
\* difference wraps, rlen stays n and buffer[offset:offset+n] is sliced beyond
\* len(buffer), which panics unless the capacity of the buffer happens to
\* reach that far (spare); then the bytes read are no part of any record.
\* Seek has stored the fresh buffer in the handle before Read runs.
TreeRead(F, A, E, H, h, offset, n, spare) ==
    IF offset > BufferLen(Buffer(E, H[h].e))
    THEN IF spare
         THEN Result(F, A, E, [H EXCEPT ![h].offset = offset + n,
                                        ![h].buffer = Buffer(E, H[h].e)],
                     Rread(n, <<[e |-> H[h].e, len |-> 0, from |-> 0, to |-> n]>>))
         ELSE [Result(F, A, E, [H EXCEPT ![h].offset = offset,
                                         ![h].buffer = Buffer(E, H[h].e)], NoReply)
                  EXCEPT !.panic = TRUE]
    ELSE IF n > BufferLen(Buffer(E, H[h].e)) - offset
    THEN Result(F, A, E, [H EXCEPT ![h].offset = BufferLen(Buffer(E, H[h].e)),
                                   ![h].buffer = Buffer(E, H[h].e)],
                Rread(BufferLen(Buffer(E, H[h].e)) - offset,
                      Window(Buffer(E, H[h].e), offset, BufferLen(Buffer(E, H[h].e)))))
    ELSE Result(F, A, E, [H EXCEPT ![h].offset = offset + n,
                                   ![h].buffer = Buffer(E, H[h].e)],
                Rread(n, Window(Buffer(E, H[h].e), offset, offset + n)))

\* RAMOpenFile.Read after Seek(offset), which has made sure offset <= len(content)
FileRead(F, A, E, H, h, offset, n) ==
    IF n > Len(E[H[h].e].content) - offset
    THEN Result(F, A, E, [H EXCEPT ![h].offset = Len(E[H[h].e].content)],
                Rread(Len(E[H[h].e].content) - offset,
                      SubSeq(E[H[h].e].content, offset + 1, Len(E[H[h].e].content))))
    ELSE Result(F, A, E, [H EXCEPT ![h].offset = offset + n],
                Rread(n, SubSeq(E[H[h].e].content, offset + 1, offset + n)))

\* FileServer.Read; M is fs.MaxSize
DoRead(F, A, E, H, M, fid, offset, count, spare) ==
    IF fid \notin DOMAIN F THEN Result(F, A, E, H, Rerror("no such fid"))
    ELSE IF F[fid].open = NoHandle THEN Result(F, A, E, H, Rerror("file not open"))
    ELSE IF ~ReadMode(F[fid].mode) THEN Result(F, A, E, H, Rerror("file not opened for reading"))
    ELSE IF E[H[F[fid].open].e].dir
    THEN IF TreeSeek(H[F[fid].open], offset) # ""
         THEN Result(F, A, E, H, Rerror(TreeSeek(H[F[fid].open], offset)))
         ELSE TreeRead(F, A, E, H, F[fid].open, offset, ReadCount(M, count), spare)
    ELSE IF FileSeek(E, H[F[fid].open], offset) # ""
         THEN Result(F, A, E, H, Rerror(FileSeek(E, H[F[fid].open], offset)))
         ELSE FileRead(F, A, E, H, F[fid].open, offset, ReadCount(M, count))

Rwrite(count) == [type |-> "Rwrite", ename |-> "", qids |-> <<>>, count |-> count]

\* RAMOpenFile.Write, lines 319-325: the content after p was written at offset
Written(content, offset, p) ==
    IF Len(p) + offset > Len(content)
    THEN SubSeq(content, 1, offset) \o p
    ELSE [i \in 1 .. Len(content) |->
             IF i > offset /\ i <= offset + Len(p) THEN p[i - offset] ELSE content[i]]

\* RAMOpenFile.Write after Seek(offset)
FileWrite(F, A, E, H, h, offset, p) ==
    Result(F, A,
           [E EXCEPT ![H[h].e].content = Written(@, offset, p),
                     ![H[h].e].mtime = Now,
                     ![H[h].e].version = @ + 1],
           [H EXCEPT ![h].offset = offset + Len(p)], Rwrite(Len(p)))

\* FileServer.Write.  A directory handle takes the Seek, which moves its cursor,
\* and then refuses the Write.
DoWrite(F, A, E, H, fid, offset, data) ==
    IF fid \notin DOMAIN F THEN Result(F, A, E, H, Rerror("no such fid"))
    ELSE IF F[fid].open = NoHandle THEN Result(F, A, E, H, Rerror("file not open"))
    ELSE IF F[fid].mode \notin {OWRITE, ORDWR}
         THEN Result(F, A, E, H, Rerror("file not opened for writing"))
    ELSE IF E[H[F[fid].open].e].dir
    THEN IF TreeSeek(H[F[fid].open], offset) # ""
         THEN Result(F, A, E, H, Rerror(TreeSeek(H[F[fid].open], offset)))
         ELSE Result(F, A, E, [H EXCEPT ![F[fid].open].offset = offset,
                                        ![F[fid].open].buffer = Buffer(E, H[F[fid].open].e)],
                     Rerror("cannot write to directory"))
    ELSE IF FileSeek(E, H[F[fid].open], offset) # ""
         THEN Result(F, A, E, H, Rerror(FileSeek(E, H[F[fid].open], offset)))
         ELSE FileWrite(F, A, E, H, F[fid].open, offset, data)

\* ------------------------------------------------------------------ Twstat
\* The "don't touch" values of a Twstat: every bit of a numeric field set, the
\* empty string.  NoParent is the nil File that WriteStat passes for a fid whose
\* location has one element.
NoNum == -1
NoParent == -1

NoStat == [type |-> NoNum, dev |-> NoNum, mode |-> Bits32, atime |-> NoNum, mtime |-> NoNum,
           length |-> NoNum, name |-> "", uid |-> "", gid |-> "", muid |-> ""]

\* setStat, the mode test: only the owner may change the mode
ModeErr_AnyUser(user, ostat, nstat) == ""

ModeErr(user, ostat, nstat) ==
    IF nstat.mode # Bits32 /\ nstat.mode # ostat.mode /\ user # ostat.uid
    THEN "only owner can change mode" ELSE ""

\* ostat.Mode = ostat.Mode&DMDIR | nstat.Mode & ^DMDIR
NewMode(ostat, nstat) ==
    IF nstat.mode # Bits32 /\ nstat.mode # ostat.mode
    THEN (ostat.mode \cap {DMDIR}) \cup (nstat.mode \ {DMDIR})
    ELSE ostat.mode

\* setStat, the name test: parent.Walk(user, nstat.Name) looks the new name up
NameErr(E, user, p, ostat, nstat) ==
    IF nstat.name = "" \/ nstat.name = ostat.name THEN ""
    ELSE IF p = NoParent THEN "it is illegal to rename root"
    ELSE IF DirWalk(E, p, user, nstat.name).err THEN "access denied"
    ELSE IF DirWalk(E, p, user, nstat.name).found THEN "name already taken"
    ELSE ""

\* setStat with the length of a file free to change
setStatErr_LengthFree(E, user, p, ostat, nstat) ==
    IF nstat.type # NoNum /\ nstat.type # ostat.type THEN "it is illegal to modify type"
    ELSE IF nstat.dev # NoNum /\ nstat.dev # ostat.dev THEN "it is illegal to modify dev"
    ELSE IF ModeErr(user, ostat, nstat) # "" THEN ModeErr(user, ostat, nstat)
    ELSE IF nstat.atime # NoNum /\ nstat.atime # ostat.atime THEN "it is illegal to modify atime"
    ELSE IF nstat.mtime # NoNum /\ nstat.mtime # ostat.mtime /\ user # ostat.uid
    THEN "only owner can change mtime"
    ELSE IF NameErr(E, user, p, ostat, nstat) # "" THEN NameErr(E, user, p, ostat, nstat)
    ELSE IF nstat.muid # "" /\ nstat.muid # ostat.muid THEN "it is illegal to modify muid"
    ELSE ""

\* setStat up to the MUID test: the first error, in the order of the code
setStatErr(E, user, p, ostat, nstat) ==
    IF nstat.type # NoNum /\ nstat.type # ostat.type THEN "it is illegal to modify type"
    ELSE IF nstat.dev # NoNum /\ nstat.dev # ostat.dev THEN "it is illegal to modify dev"
    ELSE IF ModeErr(user, ostat, nstat) # "" THEN ModeErr(user, ostat, nstat)
    ELSE IF nstat.atime # NoNum /\ nstat.atime # ostat.atime THEN "it is illegal to modify atime"
    ELSE IF nstat.mtime # NoNum /\ nstat.mtime # ostat.mtime /\ user # ostat.uid
    THEN "only owner can change mtime"
    ELSE IF nstat.length # NoNum /\ nstat.length # ostat.length THEN "change of not permitted"
    ELSE IF NameErr(E, user, p, ostat, nstat) # "" THEN NameErr(E, user, p, ostat, nstat)
    ELSE IF nstat.muid # "" /\ nstat.muid # ostat.muid THEN "it is illegal to modify muid"
    ELSE ""

needParentWrite(ostat, nstat) == nstat.name # "" /\ nstat.name # ostat.name

needWrite(ostat, nstat) ==
    \/ nstat.mtime # NoNum /\ nstat.mtime # ostat.mtime
    \/ nstat.uid # "" /\ nstat.uid # ostat.uid
    \/ nstat.gid # "" /\ nstat.gid # ostat.gid

\* the Stat handed to File.WriteStat
Merged(ostat, nstat) ==
    [ostat EXCEPT !.mode = NewMode(ostat, nstat),
                  !.mtime = IF nstat.mtime # NoNum THEN nstat.mtime ELSE @,
                  !.name = IF nstat.name # "" THEN nstat.name ELSE @,
                  !.uid = IF nstat.uid # "" THEN nstat.uid ELSE @,
                  !.gid = IF nstat.gid # "" THEN nstat.gid ELSE @]

\* RAMTree.WriteStat and RAMFile.WriteStat: name, owner, group and mode are taken
\* from s, the times are set to now whatever s.Mtime is.  The directory's map
\* keeps the entity under the key it was added with.
WriteStat(E, e, s) ==
    [E EXCEPT ![e].name = s.name, ![e].user = s.uid, ![e].group = s.gid,
              ![e].permissions = ToInt(s.mode),
              ![e].mtime = Now, ![e].version = @ + 1]

\* setStat(user, e, parent, nstat): the checks, the two probes of the parent
\* (x, err := parent.Open(user, OWRITE); x.Close()), then e.WriteStat.  The
\* second probe calls Open on the nil parent of a one-element location.
setStat(E, H, user, e, p, nstat) ==
    IF setStatErr(E, user, p, Stat(E, e), nstat) # ""
    THEN [err |-> setStatErr(E, user, p, Stat(E, e), nstat), panic |-> FALSE, ents |-> E]
    ELSE IF needParentWrite(Stat(E, e), nstat) /\ ~CanOpen(E, p, user, OWRITE)
    THEN [err |-> "access denied", panic |-> FALSE, ents |-> E]
    ELSE IF needWrite(Stat(E, e), nstat) /\ p = NoParent
    THEN [err |-> "", panic |-> TRUE, ents |-> E]
    ELSE IF needWrite(Stat(E, e), nstat) /\ ~CanOpen(E, p, user, OWRITE)
    THEN [err |-> "access denied", panic |-> FALSE, ents |-> E]
    ELSE [err |-> "", panic |-> FALSE,
          ents |-> WriteStat(IF needParentWrite(Stat(E, e), nstat) \/ needWrite(Stat(E, e), nstat)
                             THEN Probe(E, H, p).ents ELSE E,
                             e, Merged(Stat(E, e), nstat))]

\* FileServer.WriteStat, lines 711-714: the reply made of what setStat returned
WriteStatReturn(F, A, H, r) ==
    [Result(F, A, r.ents, H, IF r.err # "" THEN Rerror(r.err) ELSE Reply("Rwstat"))
     EXCEPT !.panic = r.panic]

\* FileServer.WriteStat: the parent is nil unless the location has two elements
DoWriteStat(F, A, E, H, fid, nstat) ==
    IF fid \notin DOMAIN F THEN Result(F, A, E, H, Rerror("no such fid"))
    ELSE CHOOSE res \in
             {WriteStatReturn(F, A, H, r) :
                 r \in {setStat(E, H, F[fid].username, Current(A, F[fid].location),
                                IF F[fid].location.len > 1
                                THEN FilePathParent(A, F[fid].location) ELSE NoParent,
                                nstat)}} : TRUE

\* --------------------------------------------------------------- Tversion
\* const DefaultMaxSize, and the maxSize ramfs hands to NewFileServer
DefaultMaxSize == 1024 * 1024 * 1024
ConfiguredMaxSize == 10 * 1024 * 1024

\* msize proposals of a client (a uint32; those of 2^31 and more behave as the last)
MsizeChoices == {0, 8192, ConfiguredMaxSize, 10 * ConfiguredMaxSize, DefaultMaxSize, 2147483647}
VersionStrings == {"9P2000", "9P2000.u", "9p2000"}

Rversion(msize, version) ==
    [type |-> "Rversion", ename |-> "", qids |-> <<>>, msize |-> msize, version |-> version]

\* FileServer.Version: the new fs.MaxSize and the reply
DoVersion(msize, version) ==
    LET m == IF msize < DefaultMaxSize THEN msize ELSE DefaultMaxSize IN
    [MaxSize |-> m, reply |-> Rversion(m, IF version # "9P2000" THEN "unknown" ELSE "9P2000")]

\* ------------------------------------------------------------ the live tags
\* FileServer.register: the error of a tag already in use is dropped by every caller
register(T, t) == T \cup {t}

\* FileServer.flush
flush(T, t) == T \ {t}

\* FileServer.flushed: TRUE when the tag is gone; the tag is deleted either way
flushed_Never(T, t) == FALSE

flushed(T, t) == t \notin T

\* ------------------------------------------------------------------- state
VARIABLES
    Fids,       \* fs.Fids: fid -> State
    arrays,     \* the backing arrays of the FilePath slices
    ents,       \* the tree: entity id -> RAMTree / RAMFile
    handles,    \* the OpenFile values handed to fids
    tags,       \* fs.tags
    crashed,    \* a handler panicked: the process is gone
    req,        \* the fixed-size fields of the request served last, one at a time
    resp,       \* its reply on the wire (type "none": nothing was sent)
    served,     \* how many requests were served so far
    tasks,      \* task model: the per-request tasks
    wire,       \* task model: the client's tags, tag -> slot of the request that owns it, or 0
    MaxSize,    \* fs.MaxSize
    negotiated, \* history: an Rversion carrying "9P2000" was sent (the engine keeps no such field)
    client      \* client model: the convenience Client and the Write call it is in

vars == <<Fids, arrays, ents, handles, tags, crashed, req, resp, served, tasks, wire, MaxSize,
          negotiated, client>>

NameVecs(n) == UNION {[1 .. k -> WalkNames] : k \in 0 .. n}

Request(op, tag, fid, newfid, names, oldtag, mode, uname, aname) ==
    [op |-> op, tag |-> tag, fid |-> fid, newfid |-> newfid, names |-> names,
     oldtag |-> oldtag, mode |-> mode, uname |-> uname, aname |-> aname,
     offset |-> 0, count |-> 0]

\* the fixed-size fields of a request: its type, tag, fids, nwname, oldtag, mode
Header(r) ==
    [op |-> r.op, tag |-> r.tag, fid |-> r.fid, newfid |-> r.newfid, nwname |-> Len(r.names),
     oldtag |-> r.oldtag, mode |-> r.mode, offset |-> r.offset, count |-> r.count]

NoRequest == Request("none", 0, 0, 0, <<>>, 0, 0, "", "")

TAttach(tag, fid, uname, aname) == Request("attach", tag, fid, 0, <<>>, 0, 0, uname, aname)
TWalk(tag, fid, newfid, names) == Request("walk", tag, fid, newfid, names, 0, 0, "", "")
TOpen(tag, fid, mode) == Request("open", tag, fid, 0, <<>>, 0, mode, "", "")
TClunk(tag, fid) == Request("clunk", tag, fid, 0, <<>>, 0, 0, "", "")
TRemove(tag, fid) == Request("remove", tag, fid, 0, <<>>, 0, 0, "", "")
TFlush(tag, oldtag) == Request("flush", tag, 0, 0, <<>>, oldtag, 0, "", "")
TCreate(tag, fid, name, perms, mode) ==
    [op |-> "create", tag |-> tag, fid |-> fid, newfid |-> 0, names |-> <<name>>, oldtag |-> 0,
     mode |-> mode, uname |-> "", aname |-> "", offset |-> 0, count |-> 0, perms |-> perms]

TRead(tag, fid, offset, count) ==
    [Request("read", tag, fid, 0, <<>>, 0, 0, "", "") EXCEPT !.offset = offset, !.count = count]

TWrite(tag, fid, offset, data) ==
    [op |-> "write", tag |-> tag, fid |-> fid, newfid |-> 0, names |-> <<>>, oldtag |-> 0,
     mode |-> 0, uname |-> "", aname |-> "", offset |-> offset, count |-> Len(data),
     data |-> data]

TStat(tag, fid) == Request("stat", tag, fid, 0, <<>>, 0, 0, "", "")
TWStat(tag, fid, stat) ==
    [op |-> "wstat", tag |-> tag, fid |-> fid, newfid |-> 0, names |-> <<>>, oldtag |-> 0,
     mode |-> 0, uname |-> "", aname |-> "", offset |-> 0, count |-> 0, stat |-> stat]

\* the body of request r on engine state (F, A, E, H)
Body(F, A, E, H, r) ==
    CASE r.op = "attach" -> DoAttach(F, A, E, H, r.fid, r.uname, r.aname)
      [] r.op = "walk" -> DoWalk(F, A, E, H, r.fid, r.newfid, r.names)
      [] r.op = "open" -> DoOpen(F, A, E, H, r.fid, r.mode)
      [] r.op = "create" -> DoCreate(F, A, E, H, r.fid, r.names[1], r.perms, r.mode)
      [] r.op = "clunk" -> DoClunk(F, A, E, H, r.fid)
      [] r.op = "remove" -> DoRemove(F, A, E, H, r.fid)
      [] r.op = "flush" -> DoFlush(F, A, E, H)
      [] r.op = "write" -> DoWrite(F, A, E, H, r.fid, r.offset, r.data)
      [] r.op = "stat" -> DoStat(F, A, E, H, r.fid)
      [] r.op = "wstat" -> DoWriteStat(F, A, E, H, r.fid, r.stat)

\* the tags after the body: only Flush touches them
BodyTags(T, r) == IF r.op = "flush" THEN flush(T, r.oldtag) ELSE T

\* the engine takes the state a body left
Install(res) ==
    /\ ~res.over
    /\ Fids' = res.Fids
    /\ arrays' = res.arrays
    /\ ents' = res.ents
    /\ handles' = res.handles
    /\ crashed' = res.panic

\* One request served alone, from fs.register to the deferred fs.flushed.  The
\* tag of such a request is free when it enters, so all but Tflush use the first.
ServeAs(r, budget) ==
    LET res == Body(Fids, arrays, ents, Purge(handles), r)
        T == BodyTags(register(tags, r.tag), r) IN
    /\ served < budget
    /\ served' = served + 1
    /\ Install(res)
    /\ tags' = T \ {r.tag}
    /\ req' = Header(r)
    /\ resp' = IF res.panic \/ flushed(T, r.tag) THEN NoReply ELSE res.reply
    /\ UNCHANGED <<tasks, wire, MaxSize, negotiated>>

\* a request of a client other than the convenience Client
Serve(r, budget) == ServeAs(r, budget) /\ UNCHANGED client

Attach ==
    /\ ~crashed
    /\ \E fid \in FidSet, uname \in Users, aname \in Services :
          Serve(TAttach(FirstTag, fid, uname, aname), MaxReqs)

Walk ==
    /\ ~crashed
    /\ \E fid \in FidSet, newfid \in FidSet, names \in NameVecs(MaxNames) :
          Serve(TWalk(FirstTag, fid, newfid, names), MaxReqs)

Open ==
    /\ ~crashed
    /\ \E fid \in FidSet, mode \in OpenModes :
          Serve(TOpen(FirstTag, fid, mode), MaxReqs)

Clunk ==
    /\ ~crashed
    /\ \E fid \in FidSet :
          Serve(TClunk(FirstTag, fid), MaxReqs)

Remove ==
    /\ ~crashed
    /\ \E fid \in FidSet :
          Serve(TRemove(FirstTag, fid), MaxReqs)

Flush ==
    /\ ~crashed
    /\ \E tag \in Tags, oldtag \in Tags :
          Serve(TFlush(tag, oldtag), MaxReqs)

\* a request slot of the connection: the request, how far its task is, the reply
\* its body returned, whether a response was written, and the slot of the Tflush
\* the client aimed at it (0: none)
\* the convenience Client before setup: root fid 0, nextFid 0; content, fid,
\* offset and writes are the locals of the Write call and of its writeAll
NoClient ==
    [pc |-> "new", maxSize |-> 0, root |-> 0, nextFid |-> 0, content |-> <<>>, fid |-> 0,
     offset |-> 0, writes |-> 0]

NoTask == [pc |-> "idle", req |-> NoRequest, reply |-> NoReply, sent |-> FALSE, target |-> 0]

Init ==
    /\ Fids = [f \in {} |-> 0]
    /\ arrays = [a \in ArrIds |-> NoArray]
    /\ ents = InitEnts
    /\ handles = [h \in HandleIds |-> FreeHandle]
    /\ tags = {}
    /\ crashed = FALSE
    /\ req = Header(NoRequest)
    /\ resp = NoReply
    /\ served = 0
    /\ tasks = [t \in TaskIds |-> NoTask]
    /\ wire = [t \in Tags |-> 0]
    /\ MaxSize = ConfiguredMaxSize
    /\ negotiated = FALSE
    /\ client = NoClient

Next == Attach \/ Walk \/ Open \/ Clunk \/ Remove \/ Flush

\* every request served alone, one after the other
Spec == Init /\ [][Next]_vars

\* ---------------------------------------------------- the walk model
\* Attach, walk and clunk only, with longer name vectors and fewer requests.
AttachW ==
    /\ ~crashed
    /\ \E fid \in FidSet, uname \in Users, aname \in Services :
          Serve(TAttach(FirstTag, fid, uname, aname), MaxWalkReqs)

WalkW ==
    /\ ~crashed
    /\ \E fid \in FidSet, newfid \in FidSet, names \in NameVecs(MaxWalkNames) :
          Serve(TWalk(FirstTag, fid, newfid, names), MaxWalkReqs)

ClunkW ==
    /\ ~crashed
    /\ \E fid \in FidSet :
          Serve(TClunk(FirstTag, fid), MaxWalkReqs)

NextWalk == AttachW \/ WalkW \/ ClunkW

SpecWalk == Init /\ [][NextWalk]_vars

\* -------------------------------------------------- the create model
\* Every operation on fids, Tcreate included, over fewer requests.
CreateNames == {"n", "a", ".", ".."}

\* requested modes: directories 0777 and 0500, files 0777, 0640 with a high bit and 0
CreatePerms ==
    {BitsOf(7 * 64 + 7 * 8 + 7) \cup {DMDIR}, BitsOf(5 * 64) \cup {DMDIR},
     BitsOf(7 * 64 + 7 * 8 + 7), BitsOf(6 * 64 + 4 * 8) \cup {HighBit}, {}}

AttachC ==
    /\ ~crashed
    /\ \E fid \in FidSet, uname \in Users, aname \in Services :
          Serve(TAttach(FirstTag, fid, uname, aname), MaxCreateReqs)

WalkC ==
    /\ ~crashed
    /\ \E fid \in FidSet, newfid \in FidSet, names \in NameVecs(MaxNames) :
          Serve(TWalk(FirstTag, fid, newfid, names), MaxCreateReqs)

OpenC ==
    /\ ~crashed
    /\ \E fid \in FidSet, mode \in OpenModes :
          Serve(TOpen(FirstTag, fid, mode), MaxCreateReqs)

CreateC ==
    /\ ~crashed
    /\ \E fid \in FidSet, name \in CreateNames, perms \in CreatePerms, mode \in OpenModes :
          Serve(TCreate(FirstTag, fid, name, perms, mode), MaxCreateReqs)

ClunkC ==
    /\ ~crashed
    /\ \E fid \in FidSet :
          Serve(TClunk(FirstTag, fid), MaxCreateReqs)

RemoveC ==
    /\ ~crashed
    /\ \E fid \in FidSet :
          Serve(TRemove(FirstTag, fid), MaxCreateReqs)

NextCreate == AttachC \/ WalkC \/ OpenC \/ CreateC \/ ClunkC \/ RemoveC

SpecCreate == Init /\ [][NextCreate]_vars

\* ------------------------------------------------- the version model
\* Tversion next to attach, open and clunk.
TVersion(tag) == Request("version", tag, 0, 0, <<>>, 0, 0, "", "")

\* One Tversion served alone; Version touches fs.MaxSize and nothing else.
ServeVersionAs(tag, msize, version) ==
    LET v == DoVersion(msize, version)
        T == register(tags, tag) IN
    /\ served < MaxVersionReqs
    /\ served' = served + 1
    /\ MaxSize' = v.MaxSize
    /\ handles' = Purge(handles)
    /\ tags' = T \ {tag}
    /\ req' = Header(TVersion(tag))
    /\ resp' = IF flushed(T, tag) THEN NoReply ELSE v.reply
    /\ negotiated' = (negotiated \/ (version = "9P2000" /\ ~flushed(T, tag)))
    /\ UNCHANGED <<Fids, arrays, ents, crashed, tasks, wire>>

ServeVersion(tag, msize, version) == ServeVersionAs(tag, msize, version) /\ UNCHANGED client

VersionV ==
    /\ ~crashed
    /\ \E msize \in MsizeChoices, version \in VersionStrings :
          ServeVersion(FirstTag, msize, version)

AttachV ==
    /\ ~crashed
    /\ \E fid \in FidSet, uname \in Users, aname \in Services :
          Serve(TAttach(FirstTag, fid, uname, aname), MaxVersionReqs)

OpenV ==
    /\ ~crashed
    /\ \E fid \in FidSet, mode \in OpenModes :
          Serve(TOpen(FirstTag, fid, mode), MaxVersionReqs)

ClunkV ==
    /\ ~crashed
    /\ \E fid \in FidSet :
          Serve(TClunk(FirstTag, fid), MaxVersionReqs)

NextVersion == VersionV \/ AttachV \/ OpenV \/ ClunkV

SpecVersion == Init /\ [][NextVersion]_vars

\* ---------------------------------------------------- the read model
\* Reads of directories and of file f, after a Tversion or without one.
IOFids == {0, 1}

\* Tversion msize: one that a directory does not fit in, and one that holds it
ReadMsizes == {64, 8192}

\* open modes, one of them with the truncate flag
ReadOpenModes == {OREAD, OWRITE, OREAD + OTRUNC}

\* offsets and counts around the length of one Stat (62) and of two
ReadOffsets == {0, 1, 62, 124}
ReadCounts == {1, 62, 200}

\* One Tread served alone
ServeRead(tag, fid, offset, count, spare, budget) ==
    /\ served < budget
    /\ served' = served + 1
    /\ Install(DoRead(Fids, arrays, ents, Purge(handles), MaxSize, fid, offset, count, spare))
    /\ tags' = tags
    /\ req' = Header(TRead(tag, fid, offset, count))
    /\ resp' = IF DoRead(Fids, arrays, ents, Purge(handles), MaxSize, fid, offset, count, spare).panic
               THEN NoReply
               ELSE DoRead(Fids, arrays, ents, Purge(handles), MaxSize, fid, offset, count, spare).reply
    /\ UNCHANGED <<tasks, wire, MaxSize, negotiated, client>>

VersionR ==
    /\ ~crashed
    /\ served < MaxReadReqs
    /\ \E msize \in ReadMsizes : ServeVersion(FirstTag, msize, "9P2000")

AttachR ==
    /\ ~crashed
    /\ \E uname \in Users : Serve(TAttach(FirstTag, 0, uname, "main"), MaxReadReqs)

WalkR ==
    /\ ~crashed
    /\ \E name \in {"a", "f"} : Serve(TWalk(FirstTag, 0, 1, <<name>>), MaxReadReqs)

OpenR ==
    /\ ~crashed
    /\ \E fid \in IOFids, mode \in ReadOpenModes : Serve(TOpen(FirstTag, fid, mode), MaxReadReqs)

ReadR ==
    /\ ~crashed
    /\ \E fid \in IOFids, offset \in ReadOffsets, count \in ReadCounts, spare \in BOOLEAN :
          ServeRead(FirstTag, fid, offset, count, spare, MaxReadReqs)

NextRead == VersionR \/ AttachR \/ WalkR \/ OpenR \/ ReadR

SpecRead == Init /\ [][NextRead]_vars

\* ----------------------------------------------- the read and write model
\* Writes to file f and to a file made append-only, and reads of what was written.
IOOpenModes == {OREAD, OWRITE, ORDWR, OREAD + OTRUNC, OWRITE + OTRUNC}

\* the mode of the file that CreateIO makes: 0644 and the append-only bit
AppendOnlyPerms == BitsOf(6 * 64 + 4 * 8 + 4) \cup {DMAPPEND}

WriteOffsets == {0, 1, 3}
WriteData == {<<7>>, <<8, 9>>}

AttachIO ==
    /\ ~crashed
    /\ \E uname \in Users : Serve(TAttach(FirstTag, 0, uname, "main"), MaxIOReqs)

WalkIO ==
    /\ ~crashed
    /\ Serve(TWalk(FirstTag, 0, 1, <<"f">>), MaxIOReqs)

OpenIO ==
    /\ ~crashed
    /\ \E fid \in IOFids, mode \in IOOpenModes : Serve(TOpen(FirstTag, fid, mode), MaxIOReqs)

CreateIO ==
    /\ ~crashed
    /\ Serve(TCreate(FirstTag, 0, "n", AppendOnlyPerms, ORDWR), MaxIOReqs)

ReadIO ==
    /\ ~crashed
    /\ \E fid \in IOFids, spare \in BOOLEAN :
          ServeRead(FirstTag, fid, 0, Max(ReadCounts), spare, MaxIOReqs)

WriteIO ==
    /\ ~crashed
    /\ \E fid \in IOFids, offset \in WriteOffsets, data \in WriteData :
          Serve(TWrite(FirstTag, fid, offset, data), MaxIOReqs)

NextIO == AttachIO \/ WalkIO \/ OpenIO \/ CreateIO \/ ReadIO \/ WriteIO

SpecIO == Init /\ [][NextIO]_vars

\* ---------------------------------------------------- the wstat model
\* Twstat on the root, on a, f and a/b, and on the fid that walked ".." at the
\* root.  A Twstat carries at most one forbidden change and one other change.
StatDeltas ==
    LET forbidden == {EmptyTree, [type |-> 1], [dev |-> 1], [atime |-> 5], [length |-> 9],
                      [muid |-> "eve"]}
        other == {EmptyTree, [mode |-> BitsOf(6 * 64)], [mode |-> Octal777 \cup {DMDIR}],
                  [name |-> "g"], [name |-> "f"], [name |-> "a"], [uid |-> "eve"],
                  [gid |-> "eve"], [mtime |-> 5]}
    IN {[k \in DOMAIN NoStat |-> IF k \in DOMAIN x THEN x[k]
                                 ELSE IF k \in DOMAIN y THEN y[k] ELSE NoStat[k]] :
           x \in forbidden, y \in other}

StatWalks == {<<"f">>, <<"a">>, <<"..">>, <<"g">>, <<"a", "b">>}

AttachS ==
    /\ ~crashed
    /\ \E uname \in Users : Serve(TAttach(FirstTag, 0, uname, "main"), MaxStatReqs)

WalkS ==
    /\ ~crashed
    /\ \E newfid \in {1, 2}, names \in StatWalks :
          Serve(TWalk(FirstTag, 0, newfid, names), MaxStatReqs)

WriteStatS ==
    /\ ~crashed
    /\ \E fid \in IOFids, nstat \in StatDeltas : Serve(TWStat(FirstTag, fid, nstat), MaxStatReqs)

NextStat == AttachS \/ WalkS \/ WriteStatS

SpecStat == Init /\ [][NextStat]_vars

\* ---------------------------------------------------- the directory model
\* glen reads the root through fid 0 while fid 1 removes f from it or creates n
\* in it.
AttachD ==
    /\ ~crashed
    /\ Serve(TAttach(FirstTag, 0, "glen", "main"), MaxDirReqs)

WalkD ==
    /\ ~crashed
    /\ \E names \in {<<>>, <<"f">>} : Serve(TWalk(FirstTag, 0, 1, names), MaxDirReqs)

OpenD ==
    /\ ~crashed
    /\ Serve(TOpen(FirstTag, 0, OREAD), MaxDirReqs)

ReadD ==
    /\ ~crashed
    /\ \E offset \in ReadOffsets, count \in ReadCounts, spare \in BOOLEAN :
          ServeRead(FirstTag, 0, offset, count, spare, MaxDirReqs)

CreateD ==
    /\ ~crashed
    /\ Serve(TCreate(FirstTag, 1, "n", BitsOf(6 * 64 + 4 * 8 + 4), ORDWR), MaxDirReqs)

RemoveD ==
    /\ ~crashed
    /\ Serve(TRemove(FirstTag, 1), MaxDirReqs)

NextDir == AttachD \/ WalkD \/ OpenD \/ ReadD \/ CreateD \/ RemoveD

SpecDir == Init /\ [][NextDir]_vars

\* ---------------------------------------------------- the client model
\* The convenience Client: setup, then one call of Write(content, file), each of
\* its requests served by the file server before the next is sent.  The msize
\* the client proposes stands for its DefaultMaxSize, brought down to the size
\* of the contents written here: writeAll sends chunks of maxSize - 20 bytes.
ClientMsizes == {21, 22}
ClientContents == {<<>>, <<5>>, <<5, 6>>, <<5, 6, 7>>}
ClientFiles == {<<"f">>, <<"a">>, <<"g">>}

\* Client.getFid: the fid handed out
getFid(nextFid) == IF nextFid = 0 THEN 1 ELSE nextFid

\* writeAll: the length of the next chunk
ChunkLen(maxSize, content, offset) ==
    IF Len(content) - offset < maxSize - 20 THEN Len(content) - offset ELSE maxSize - 20

\* Client.setup: the Tversion; maxSize is the msize of the Rversion
ClientVersion ==
    /\ ~crashed
    /\ client.pc = "new"
    /\ served < MaxClientReqs
    /\ \E msize \in ClientMsizes : ServeVersionAs(FirstTag, msize, "9P2000")
    /\ client' = [client EXCEPT !.pc = "versioned", !.maxSize = resp'.msize]

\* Client.setup: the Tattach of the root fid
ClientAttach ==
    /\ ~crashed
    /\ client.pc = "versioned"
    /\ \E uname \in Users : ServeAs(TAttach(FirstTag, client.root, uname, "main"), MaxClientReqs)
    /\ client' = [client EXCEPT !.pc = IF resp'.type = "Rattach" THEN "ready" ELSE "done"]

\* Write: walkTo(file).  An error returns before the clunk is deferred.
ClientWalk ==
    /\ ~crashed
    /\ client.pc = "ready"
    /\ \E content \in ClientContents, file \in ClientFiles :
          /\ ServeAs(TWalk(FirstTag, client.root, getFid(client.nextFid), file), MaxClientReqs)
          /\ client' = [client EXCEPT
                           !.pc = IF resp'.type = "Rwalk" /\ Len(resp'.qids) = Len(file)
                                  THEN "walked" ELSE "done",
                           !.nextFid = getFid(client.nextFid) + 1,
                           !.fid = getFid(client.nextFid),
                           !.content = content]

\* Write: the Topen with OWRITE; an error returns through the deferred clunk
ClientOpen ==
    /\ ~crashed
    /\ client.pc = "walked"
    /\ ServeAs(TOpen(FirstTag, client.fid, OWRITE), MaxClientReqs)
    /\ client' = [client EXCEPT !.pc = IF resp'.type = "Ropen" THEN "loop" ELSE "returning",
                                !.offset = 0, !.writes = 0]

\* writeAll: one turn of the loop, which has no condition and no break; it is
\* left only by the return of an error
ClientTwrite ==
    /\ ~crashed
    /\ client.pc = "loop"
    /\ ServeAs(TWrite(FirstTag, client.fid, client.offset,
                      SubSeq(client.content, client.offset + 1,
                             client.offset + ChunkLen(client.maxSize, client.content, client.offset))),
               MaxClientReqs)
    /\ client' = IF resp'.type = "Rwrite"
                 THEN [client EXCEPT !.offset = @ + resp'.count, !.writes = @ + 1]
                 ELSE [client EXCEPT !.pc = "returning", !.writes = @ + 1]

\* the deferred c.clunk(fid), after which Write has returned
ClientClunk ==
    /\ ~crashed
    /\ client.pc = "returning"
    /\ ServeAs(TClunk(FirstTag, client.fid), MaxClientReqs)
    /\ client' = [client EXCEPT !.pc = "done"]

NextClient ==
    ClientVersion \/ ClientAttach \/ ClientWalk \/ ClientOpen \/ ClientTwrite \/ ClientClunk

SpecClient == Init /\ [][NextClient]_vars

\* ---------------------------------------------------- the task model
\* Every request runs as a task of its own: fs.register, the body under the
\* engine's locks, then the deferred fs.flushed that decides whether the response
\* is written.  wire is the client's side of the connection: the slot that owns
\* each tag, 0 for a tag the client holds free.
TaskRequests ==
    {TAttach(tag, 0, "glen", "main") : tag \in Tags}
        \cup {TClunk(tag, 0) : tag \in Tags}
        \cup {TFlush(tag, oldtag) : tag \in Tags, oldtag \in Tags}

\* the tags the client may not use for a new request: the owned ones and the
\* oldtags of the Tflush requests still unanswered
Reserved ==
    {x \in Tags : wire[x] # 0}
        \cup {tasks[wire[x]].req.oldtag : x \in {y \in Tags : wire[y] # 0 /\ tasks[wire[y]].req.op = "flush"}}

\* the slots a Tflush sent from slot t is aimed at: the request the client has
\* in flight on oldtag, or the Tflush itself when oldtag is its own tag
Targets(t, r) ==
    IF r.op # "flush" THEN {}
    ELSE IF r.oldtag = r.tag THEN {t}
    ELSE {u \in TaskIds : wire[r.oldtag] = u /\ ~tasks[u].sent}

\* the client sends the next request on a tag it holds free
Issue(t) ==
    /\ ~crashed
    /\ tasks[t].pc = "idle"
    /\ \A u \in TaskIds : u < t => tasks[u].pc # "idle"
    /\ \E r \in TaskRequests :
          /\ r.tag \notin Reserved
          /\ LET hit == Targets(t, r) IN
             tasks' = [u \in TaskIds |->
                          IF u = t
                          THEN [NoTask EXCEPT !.pc = "issued", !.req = r,
                                              !.target = IF t \in hit THEN t ELSE 0]
                          ELSE IF u \in hit THEN [tasks[u] EXCEPT !.target = t]
                          ELSE tasks[u]]
          /\ wire' = [wire EXCEPT ![r.tag] = t]
    /\ UNCHANGED <<Fids, arrays, ents, handles, tags, crashed, req, resp, served, MaxSize, negotiated, client>>

\* fs.register at the head of the handler; its error is dropped
Register(t) ==
    /\ tasks[t].pc = "issued"
    /\ tags' = register(tags, tasks[t].req.tag)
    /\ tasks' = [tasks EXCEPT ![t].pc = "registered"]
    /\ UNCHANGED <<Fids, arrays, ents, handles, crashed, req, resp, served, wire, MaxSize, negotiated, client>>

\* the body of the handler, atomic under fidLock (tagLock for Flush)
Execute(t) ==
    LET r == tasks[t].req
        res == Body(Fids, arrays, ents, Purge(handles), r) IN
    /\ tasks[t].pc = "registered"
    /\ Install(res)
    /\ tags' = BodyTags(tags, r)
    /\ tasks' = [tasks EXCEPT ![t].pc = "executed", ![t].reply = res.reply]
    /\ UNCHANGED <<req, resp, served, wire, MaxSize, negotiated, client>>

\* the client's tags after a response carrying tag x: x is free again, and when
\* x belongs to a Tflush so is its oldtag
Received(x) ==
    [y \in Tags |->
        IF y = x THEN 0
        ELSE IF wire[x] # 0 /\ tasks[wire[x]].req.op = "flush" /\ tasks[wire[x]].req.oldtag = y
        THEN 0
        ELSE wire[y]]

\* a deferred check that looks the tag up and leaves it in the table
Finish_KeepTag(t) ==
    LET x == tasks[t].req.tag IN
    /\ tasks[t].pc = "executed"
    /\ tasks' = [tasks EXCEPT ![t].pc = "done", ![t].sent = ~flushed(tags, x)]
    /\ wire' = IF flushed(tags, x) THEN wire ELSE Received(x)
    /\ UNCHANGED <<Fids, arrays, ents, handles, tags, crashed, req, resp, served, MaxSize, negotiated, client>>

\* the deferred fs.flushed: the response is written unless the tag is gone
Finish(t) ==
    LET x == tasks[t].req.tag IN
    /\ tasks[t].pc = "executed"
    /\ tags' = tags \ {x}
    /\ tasks' = [tasks EXCEPT ![t].pc = "done", ![t].sent = ~flushed(tags, x)]
    /\ wire' = IF flushed(tags, x) THEN wire ELSE Received(x)
    /\ UNCHANGED <<Fids, arrays, ents, handles, crashed, req, resp, served, MaxSize, negotiated, client>>

NextTasks == \E t \in TaskIds : Issue(t) \/ Register(t) \/ Execute(t) \/ Finish(t)

\* the requests of one connection under any interleaving of their tasks
SpecTasks == Init /\ [][NextTasks]_vars

\* ------------------------------------------------------- claims on tags
\* C1: a request R whose tag a Tflush names before R's response is written
\* gets no response: none is written for R once the Rflush is out (the Tflush
\* being another request than R), and a Tflush that ran to its end without being
\* flushed in turn has its Rflush written.
C1_FlushSuppressesResponse ==
    [][\A t \in TaskIds :
          (tasks[t].target \notin {0, t}) =>
              /\ (tasks[tasks[t].target].sent /\ ~tasks[t].sent) => ~tasks'[t].sent
              /\ (tasks'[tasks[t].target].pc = "done" /\ tasks'[tasks[t].target].target = 0)
                     => tasks'[tasks[t].target].sent]_vars

\* C2: with the client keeping the tags in flight distinct, a request that no
\* Tflush is aimed at and whose task has run to its end has had its one response.
C2_ExactlyOneResponse ==
    \A t \in TaskIds :
        (tasks[t].pc = "done" /\ tasks[t].target = 0) => tasks[t].sent

\* ------------------------------------------------------- claims on Twalk
\* the step served a Twalk
WalkServed == served' # served /\ req'.op = "walk"

\* the reply of the step carries fewer qids than the request has names
PartialReply ==
    resp'.type = "Rerror" \/ (resp'.type = "Rwalk" /\ Len(resp'.qids) < req'.nwname)

\* the name vectors the request served by the step may have carried
NamesServed == {names \in NameVecs(MaxWalkNames) : Len(names) = req'.nwname}

\* C4: a Twalk answered with fewer qids than names (or with Rerror) leaves the
\* set of bound fids and the path, handle and mode of every bound fid as they were.
C4_PartialWalkKeepsFidTable ==
    [][(WalkServed /\ PartialReply) => View(Fids', arrays') = View(Fids, arrays)]_vars

\* C5: a Twalk with newfid # fid leaves the path of fid and of every other fid
\* bound before it element for element as it was.
C5_WalkKeepsBoundPaths ==
    [][(WalkServed /\ req'.newfid # req'.fid) =>
          \A f \in DOMAIN Fids :
              /\ f \in DOMAIN Fids'
              /\ Path(arrays', Fids'[f].location) = Path(arrays, Fids[f].location)]_vars

\* the loop of Walk run from fid over names, as a walk to a fresh fid runs it
Resolve(fid, names) ==
    WalkLoop(Fids, ents, Fids[fid].username, names, 1,
             [root |-> Current(arrays, Fids[fid].location), loc |-> Fids[fid].location,
              arrays |-> arrays, ents |-> ents, handles |-> Purge(handles),
              qids |-> <<>>, stop |-> FALSE, over |-> FALSE])

\* C6: a Twalk with newfid = fid on a bound, unopened fid whose whole name vector
\* resolves is answered with as many qids as names and rebinds fid to the new path.
C6_WalkInPlaceSucceeds ==
    [][(WalkServed /\ req'.newfid = req'.fid /\ req'.nwname > 0) =>
          \A names \in NamesServed :
              (/\ Serve(TWalk(req'.tag, req'.fid, req'.fid, names), MaxWalkReqs)
               /\ req'.fid \in DOMAIN Fids
               /\ Fids[req'.fid].open = NoHandle
               /\ ents[Current(arrays, Fids[req'.fid].location)].dir
               /\ ~Resolve(req'.fid, names).stop)
              => /\ resp'.type = "Rwalk"
                 /\ Len(resp'.qids) = Len(names)
                 /\ req'.fid \in DOMAIN Fids'
                 /\ Current(arrays', Fids'[req'.fid].location) = Resolve(req'.fid, names).root]_vars

\* C7: a Twalk with newfid # fid whose first name is not in the directory of fid
\* is answered with Rerror, not with an Rwalk of zero qids.
C7_FirstNameMissIsError ==
    [][(WalkServed /\ req'.newfid # req'.fid /\ req'.nwname > 0) =>
          \A names \in NamesServed :
              (/\ Serve(TWalk(req'.tag, req'.fid, req'.newfid, names), MaxWalkReqs)
               /\ req'.fid \in DOMAIN Fids
               /\ names[1] \notin {".", ".."}
               /\ ents[Current(arrays, Fids[req'.fid].location)].dir
               /\ names[1] \notin DOMAIN ents[Current(arrays, Fids[req'.fid].location)].tree)
              => resp'.type = "Rerror"]_vars

\* C9: a fully successful Twalk of '..' and '.' names from a fid at the session
\* root reports the root's qid for every name and binds newfid to the root alone.
C9_DotDotAtRootStaysAtRoot ==
    [][(WalkServed /\ req'.nwname > 0 /\ resp'.type = "Rwalk"
        /\ Len(resp'.qids) = req'.nwname) =>
          \A names \in {n \in NamesServed : \A i \in 1 .. Len(n) : n[i] \in {".", ".."}} :
              (/\ Serve(TWalk(req'.tag, req'.fid, req'.newfid, names), MaxWalkReqs)
               /\ req'.fid \in DOMAIN Fids
               /\ Path(arrays, Fids[req'.fid].location) = <<Roots[Fids[req'.fid].service]>>)
              => /\ \A i \in 1 .. Len(names) :
                        resp'.qids[i] = Qid(ents, Roots[Fids[req'.fid].service])
                 /\ req'.newfid \in DOMAIN Fids'
                 /\ Path(arrays', Fids'[req'.newfid].location) = <<Roots[Fids[req'.fid].service]>>]_vars

\* ------------------------------------------- claims on Tflush, clone, Tremove
\* C3: every Tflush, whatever its oldtag, is answered with Rflush.
C3_TflushAnswered ==
    (served > 0 /\ req.op = "flush") => resp.type = "Rflush"

\* fid is bound without a handle and newfid is free: the case a clone is due
CloneDue(fid, newfid) ==
    fid \in DOMAIN Fids /\ Fids[fid].open = NoHandle /\ newfid \notin DOMAIN Fids

\* C8: a Twalk without names binds newfid to the path, user and service of fid,
\* unopened, exactly when fid is bound without a handle and newfid is not bound,
\* and is otherwise an error that leaves the fid table alone; a Twalk of any
\* length from a fid with an open handle is such an error.
C8_ZeroNameWalkClones ==
    [][WalkServed =>
          /\ (req'.nwname = 0 /\ CloneDue(req'.fid, req'.newfid)) =>
                 /\ resp' = ReplyQids("Rwalk", <<>>)
                 /\ View(Fids', arrays') =
                        [f \in DOMAIN Fids \cup {req'.newfid} |->
                            IF f = req'.newfid
                            THEN [View(Fids, arrays)[req'.fid] EXCEPT !.open = NoHandle]
                            ELSE View(Fids, arrays)[f]]
          /\ (req'.nwname = 0 /\ ~CloneDue(req'.fid, req'.newfid)) =>
                 /\ resp'.type = "Rerror"
                 /\ View(Fids', arrays') = View(Fids, arrays)
          /\ (req'.fid \in DOMAIN Fids /\ Fids[req'.fid].open # NoHandle) =>
                 /\ resp'.type = "Rerror"
                 /\ View(Fids', arrays') = View(Fids, arrays)]_vars

\* a clone has just bound newfid next to fid, on the same path
C8_Cloned ==
    /\ served > 0 /\ req.op = "walk" /\ req.nwname = 0 /\ resp.type = "Rwalk"
    /\ req.fid # req.newfid
    /\ {req.fid, req.newfid} \subseteq DOMAIN Fids
    /\ Path(arrays, Fids[req.newfid].location) = Path(arrays, Fids[req.fid].location)

\* the requests that name fid after it is gone
Naming(fid) ==
    {TWalk(FirstTag, fid, newfid, names) : newfid \in FidSet, names \in NameVecs(MaxNames)}
        \cup {TOpen(FirstTag, fid, mode) : mode \in OpenModes}
        \cup {TClunk(FirstTag, fid), TRemove(FirstTag, fid)}

\* C10: after a Tremove on a bound fid, whatever became of the removal, the fid
\* is unbound, the handle it had is closed, and any request naming the fid gets
\* the unknown-fid error.
C10_RemoveAlwaysClunks ==
    [][(served' # served /\ req'.op = "remove" /\ req'.fid \in DOMAIN Fids) =>
          /\ req'.fid \notin DOMAIN Fids'
          /\ Fids[req'.fid].open # NoHandle => handles'[Fids[req'.fid].open].st = "closed"
          /\ \A r \in Naming(req'.fid) :
                 Body(Fids', arrays', ents', Purge(handles'), r).reply = Rerror("no such fid")]_vars

\* a Tremove of the open, non-empty directory a has failed to remove it: the
\* fid is gone and its handle is closed all the same
C10_FailedRemoveClunked ==
    /\ served > 0 /\ req.op = "remove" /\ resp.type = "Rremove"
    /\ req.fid \notin DOMAIN Fids
    /\ \E h \in HandleIds : (handles[h].e = 1 /\ handles[h].st = "closed")
    /\ "a" \in DOMAIN ents[0].tree

\* ------------------------------------------------------ claims on Tremove
\* the step served a Tremove on a bound fid
RemoveServed == served' # served /\ req'.op = "remove" /\ req'.fid \in DOMAIN Fids

\* C11: a Tremove on a fid (below the root) whose entity is a directory with a
\* child is answered with Rerror "directory not empty", the tree keeps the
\* directory and its children, and the fid is unbound.
C11_RemoveNonEmptyIsError ==
    [][(/\ RemoveServed
        /\ Fids[req'.fid].location.len > 1
        /\ ents[Current(arrays, Fids[req'.fid].location)].dir
        /\ DOMAIN ents[Current(arrays, Fids[req'.fid].location)].tree # {}) =>
          /\ resp' = Rerror("directory not empty")
          /\ \A e \in DOMAIN ents : ents'[e].tree = ents[e].tree
          /\ req'.fid \notin DOMAIN Fids']_vars

\* ------------------------------------------------- claims on fid binding
\* C12: Tattach binds its fid, and Twalk its newfid, only when that fid is not
\* bound; binding a bound fid is the error "fid already in use" (for Twalk when
\* the source fid is usable, whose own errors come first) and leaves the fid
\* table alone; right after an Rclunk the fid can be bound again by either.
C12_BindOnlyUnboundFid ==
    [][(served' # served) =>
          /\ (req'.op = "attach") =>
                 \A uname \in Users, aname \in Services :
                     Serve(TAttach(req'.tag, req'.fid, uname, aname), MaxReqs) =>
                         IF req'.fid \in DOMAIN Fids
                         THEN /\ resp' = Rerror("fid already in use")
                              /\ View(Fids', arrays') = View(Fids, arrays)
                         ELSE aname \in DOMAIN Roots =>
                                  /\ resp'.type = "Rattach"
                                  /\ req'.fid \in DOMAIN Fids'
          /\ (req'.op = "walk" /\ req'.newfid \in DOMAIN Fids) =>
                 /\ resp'.type = "Rerror"
                 /\ View(Fids', arrays') = View(Fids, arrays)
                 /\ (req'.fid \in DOMAIN Fids /\ Fids[req'.fid].open = NoHandle)
                        => resp' = Rerror("fid already in use")
          /\ (/\ req'.op = "walk" /\ req'.newfid \notin DOMAIN Fids
              /\ resp'.type = "Rwalk" /\ Len(resp'.qids) = req'.nwname
              /\ req'.nwname > 0) => req'.newfid \in DOMAIN Fids'
          /\ (req'.op = "clunk" /\ resp'.type = "Rclunk") =>
                 /\ req'.fid \notin DOMAIN Fids'
                 /\ \A uname \in Users :
                        Body(Fids', arrays', ents', Purge(handles'),
                             TAttach(FirstTag, req'.fid, uname, "main")).reply.type = "Rattach"
                 /\ \A f \in DOMAIN Fids' :
                        Fids'[f].open = NoHandle =>
                            Body(Fids', arrays', ents', Purge(handles'),
                                 TWalk(FirstTag, f, req'.fid, <<>>)).reply.type = "Rwalk"]_vars

\* a Tattach on a bound fid has just been refused
C12_AttachRefused ==
    /\ served > 0 /\ req.op = "attach" /\ resp = Rerror("fid already in use")
    /\ req.fid \in DOMAIN Fids

Least(a, b) == IF a < b THEN a ELSE b

\* C14: for every Tversion the msize of Rversion and the session maxsize stored
\* afterwards both are the least of the requested msize and the cap the server
\* was configured with.
C14_SizeNegotiation ==
    [][\A msize \in MsizeChoices, version \in VersionStrings :
          ServeVersion(FirstTag, msize, version) =>
              /\ resp'.msize = Least(msize, ConfiguredMaxSize)
              /\ MaxSize' = Least(msize, ConfiguredMaxSize)]_vars

\* C15: Rversion carries "9P2000" iff the request's version string is exactly
\* "9P2000" and "unknown" otherwise; and until a Tversion with "9P2000" has been
\* answered, every other request is answered with an error and leaves the fid
\* table as it was.
C15_VersionGating ==
    [][/\ \A msize \in MsizeChoices, version \in VersionStrings :
             ServeVersion(FirstTag, msize, version) =>
                 resp'.version = IF version = "9P2000" THEN "9P2000" ELSE "unknown"
       /\ (~negotiated /\ served' # served /\ req'.op # "version") =>
             /\ resp'.type = "Rerror"
             /\ View(Fids', arrays') = View(Fids, arrays)]_vars

\* C16: after a Tversion has been answered the fid table is empty and no handle
\* is open, so a request on a fid bound before gets the unknown-fid error.
C16_VersionResets ==
    [][\A msize \in MsizeChoices, version \in VersionStrings :
          ServeVersion(FirstTag, msize, version) =>
              /\ DOMAIN Fids' = {}
              /\ \A h \in HandleIds : handles'[h].st # "open"
              /\ \A fid \in FidSet :
                    Body(Fids', arrays', ents', Purge(handles'), TClunk(FirstTag, fid)).reply
                        = Rerror("no such fid")]_vars

OpenServed == served' # served /\ req'.op = "open" /\ req'.fid \in DOMAIN Fids

\* the rwx digit of entity e that counts for user: the owner's or the others'
Digit(e, user) ==
    IF ents[e].user = user THEN (ents[e].permissions \div 64) % 8 ELSE ents[e].permissions % 8

\* the permission bits of e grant mode to user
Grants(e, user, mode) ==
    /\ mode \in {OREAD, ORDWR} => Digit(e, user) \div 4 = 1
    /\ mode \in {OWRITE, ORDWR} => (Digit(e, user) \div 2) % 2 = 1
    /\ mode = OEXEC => Digit(e, user) % 2 = 1

\* C17: Topen on a fid that has a handle fails with "already open", Topen with
\* a mode the entity's permission bits do not grant to the fid's user fails with
\* "access denied", and in both cases the fid table is as before; otherwise the
\* fid holds a handle opened by this request on its entity and records the mode.
C17_OpenOutcome ==
    [][OpenServed =>
          LET s == Fids[req'.fid]
              e == Current(arrays, s.location) IN
          /\ s.open # NoHandle =>
                /\ resp' = Rerror("already open")
                /\ View(Fids', arrays') = View(Fids, arrays)
          /\ (s.open = NoHandle /\ ~Grants(e, s.username, req'.mode)) =>
                /\ resp' = Rerror("access denied")
                /\ View(Fids', arrays') = View(Fids, arrays)
          /\ (s.open = NoHandle /\ Grants(e, s.username, req'.mode)) =>
                /\ resp' = ReplyQids("Ropen", <<Qid(ents, e)>>)
                /\ DOMAIN Fids' = DOMAIN Fids
                /\ Fids'[req'.fid].open \in HandleIds
                /\ handles[Fids'[req'.fid].open].st # "open"
                /\ handles'[Fids'[req'.fid].open] = [e |-> e, st |-> "open", offset |-> 0, buffer |-> <<>>]
                /\ Fids'[req'.fid].mode = req'.mode
                /\ \A f \in DOMAIN Fids \ {req'.fid} :
                      View(Fids', arrays')[f] = View(Fids, arrays)[f]]_vars

\* a Topen was refused for lack of permission, and one went through
C17_OpenDenied ==
    /\ req.op = "open"
    /\ resp = Rerror("access denied")
    /\ \E f \in DOMAIN Fids : Fids[f].open # NoHandle

CreateServed == served' # served /\ req'.op = "create" /\ req'.fid \in DOMAIN Fids

\* C18: after a successful Tcreate(fid, name, perms, mode) the directory the fid
\* pointed at has a child called name, a new entity; the fid's path is the old
\* path extended by it; the fid holds a handle opened on it with the requested
\* mode; and the Rcreate qid is the new entity's, of directory type iff perms
\* has DMDIR.
C18_CreateSuccessState ==
    [][CreateServed =>
          \A name \in CreateNames, perms \in CreatePerms :
             (/\ Serve(TCreate(FirstTag, req'.fid, name, perms, req'.mode), MaxCreateReqs)
              /\ resp'.type = "Rcreate") =>
                LET d == Current(arrays, Fids[req'.fid].location) IN
                /\ name \in DOMAIN ents'[d].tree
                /\ name \notin DOMAIN ents[d].tree
                /\ ents'[d].tree[name] \notin DOMAIN ents
                /\ ents'[ents'[d].tree[name]].name = name
                /\ Path(arrays', Fids'[req'.fid].location)
                      = Append(Path(arrays, Fids[req'.fid].location), ents'[d].tree[name])
                /\ Fids'[req'.fid].open \in HandleIds
                /\ handles[Fids'[req'.fid].open].st # "open"
                /\ handles'[Fids'[req'.fid].open] = [e |-> ents'[d].tree[name], st |-> "open", offset |-> 0,
                                                                buffer |-> <<>>]
                /\ Fids'[req'.fid].mode = req'.mode
                /\ resp'.qids = <<Qid(ents', ents'[d].tree[name])>>
                /\ resp'.qids[1].path = ents'[ents'[d].tree[name]].id
                /\ (resp'.qids[1].type = "QTDIR") = (DMDIR \in perms)
                /\ ents'[ents'[d].tree[name]].dir = (DMDIR \in perms)]_vars

\* a Tcreate made a directory and left the fid on it, open
C18_DirectoryCreated ==
    /\ req.op = "create"
    /\ resp.type = "Rcreate"
    /\ resp.qids[1].type = "QTDIR"
    /\ req.fid \in DOMAIN Fids
    /\ Fids[req.fid].open # NoHandle
    /\ Fids[req.fid].location.len = 2

\* C19: a Tcreate on a fid that has an open handle, on a fid whose entity is no
\* directory, with the name "." or "..", or by a user without write permission
\* on the directory is answered with an error, creates nothing and leaves the
\* fid table as it was.
C19_CreatePreconditions ==
    [][CreateServed =>
          \A name \in CreateNames, perms \in CreatePerms :
             LET s == Fids[req'.fid]
                 d == Current(arrays, s.location) IN
             (/\ Serve(TCreate(FirstTag, req'.fid, name, perms, req'.mode), MaxCreateReqs)
              /\ \/ s.open # NoHandle
                 \/ ~ents[d].dir
                 \/ name \in {".", ".."}
                 \/ ~Grants(d, s.username, OWRITE)) =>
                /\ resp' = Rerror(IF s.open # NoHandle THEN "already open"
                                  ELSE IF name \in {".", ".."} THEN "illegal name"
                                  ELSE IF ~ents[d].dir THEN "not a directory"
                                  ELSE "access denied")
                /\ ents' = ents
                /\ \A h \in HandleIds : handles'[h].st = "open" <=> handles[h].st = "open"
                /\ View(Fids', arrays') = View(Fids, arrays)]_vars

\* a Tcreate in a directory its user may not write was refused, nothing created
C19_CreateDenied ==
    /\ req.op = "create"
    /\ resp = Rerror("access denied")
    /\ DOMAIN ents = DOMAIN InitEnts
    /\ req.fid \in DOMAIN Fids
    /\ Fids[req.fid].open = NoHandle
    /\ ents[Current(arrays, Fids[req.fid].location)].dir

\* the mode word of entity n: its permission bits and DMDIR for a directory
ModeOf(E, n) == BitsOf(E[n].permissions) \cup (IF E[n].dir THEN {DMDIR} ELSE {})

ExecBits == {0, 3, 6}

\* perms and parent are the mode asked for and the mode of the directory
MaskedAsClaimed(got, perms, parent) ==
    IF DMDIR \in perms
    THEN \A k \in Bits32 : k \in got <=> (k \in perms /\ (k < 9 => k \in parent))
    ELSE /\ got \cap ExecBits = {}
         /\ \A k \in Bits32 \ ExecBits : k \in got <=> (k \in perms /\ (k < 9 => k \in parent))

MaskedAsRequested(got, perms, parent) ==
    IF DMDIR \in perms
    THEN \A k \in Bits32 : k \in got <=> (k \in perms /\ (k < 9 => k \in parent))
    ELSE \A k \in Bits32 :
            k \in got <=> (k \in perms /\ ((k < 9 /\ k \notin ExecBits) => k \in parent))

\* the entity a Tcreate added to directory d under name got its mode by mask
Masked(mask(_, _, _)) ==
    CreateServed =>
       \A name \in CreateNames, perms \in CreatePerms :
          LET d == Current(arrays, Fids[req'.fid].location) IN
          (/\ Serve(TCreate(FirstTag, req'.fid, name, perms, req'.mode), MaxCreateReqs)
           /\ DOMAIN ents' # DOMAIN ents) =>
             /\ name \in DOMAIN ents'[d].tree
             /\ mask(ModeOf(ents', ents'[d].tree[name]), perms, BitsOf(ents[d].permissions))

\* C20 as stated: a created directory gets perms & (~0777 | (parent & 0777)),
\* and a created file gets a mode whose execute bits are zero, whose read and
\* write bits are the requested ones ANDed with the parent's and whose high
\* bits are the requested ones.
C20_FileExecuteBitsZero == [][Masked(MaskedAsClaimed)]_vars

\* C20 amended: a created directory gets perms & (~0777 | (parent & 0777)), and
\* a created file gets perms & (~0666 | (parent & 0666)): its read and write
\* bits are the requested ones ANDed with the parent's, its execute bits and
\* its high bits are the requested ones.
C20_CreateMask == [][Masked(MaskedAsRequested)]_vars

\* a file asked for with mode 0777 was created in a directory of mode 0755
C20_ExecutableFileCreated ==
    /\ req.op = "create"
    /\ \E n \in DOMAIN ents \ DOMAIN InitEnts :
          /\ ~ents[n].dir
          /\ ents[n].permissions = 7 * 64 + 5 * 8 + 5

ReadServed == served' # served /\ req'.op = "read" /\ req'.fid \in DOMAIN Fids

WriteServed == served' # served /\ req'.op = "write" /\ req'.fid \in DOMAIN Fids

\* no byte was read or written: no cursor moved and no entity changed
NoIO == handles' = Purge(handles) /\ ents' = ents

\* C21: a Tread on an unopened fid is answered "file not open", one on a handle
\* whose mode has low two bits other than OREAD and ORDWR is answered "file not
\* opened for reading", and in both cases nothing is read; a Tread on a handle
\* whose low two bits are OREAD or ORDWR is not refused for its mode, whatever
\* flag bits the mode carries.  The same for Twrite with OWRITE and ORDWR.
C21_DirectionOnMaskedMode ==
    [][/\ ReadServed =>
             /\ Fids[req'.fid].open = NoHandle => (resp' = Rerror("file not open") /\ NoIO)
             /\ (Fids[req'.fid].open # NoHandle /\ Fids[req'.fid].mode % 4 \notin {OREAD, ORDWR}) =>
                   (resp' = Rerror("file not opened for reading") /\ NoIO)
             /\ (Fids[req'.fid].open # NoHandle /\ Fids[req'.fid].mode % 4 \in {OREAD, ORDWR}) =>
                   resp' # Rerror("file not opened for reading")
       /\ WriteServed =>
             /\ Fids[req'.fid].open = NoHandle => (resp' = Rerror("file not open") /\ NoIO)
             /\ (Fids[req'.fid].open # NoHandle /\ Fids[req'.fid].mode % 4 \notin {OWRITE, ORDWR}) =>
                   (resp' = Rerror("file not opened for writing") /\ NoIO)
             /\ (Fids[req'.fid].open # NoHandle /\ Fids[req'.fid].mode % 4 \in {OWRITE, ORDWR}) =>
                   resp' # Rerror("file not opened for writing")]_vars

\* the fid of the Tread holds an open handle of a directory
DirRead == /\ ReadServed
           /\ Fids[req'.fid].open # NoHandle
           /\ ents[handles[Fids[req'.fid].open].e].dir

\* C22: every Rread, header and count field included, is at most as long as the
\* session's maxsize, whatever count was asked for and whatever size was
\* negotiated: the data is at most maxsize - 11 bytes.
C22_RreadFitsMaxSize ==
    [][(ReadServed /\ resp'.type = "Rread")
          => HeaderSize + EmptyReadResponseLength + resp'.count <= MaxSize]_vars

\* C23: the data of every Rread of an open directory is a concatenation of whole
\* Stat records: no record is cut at its start or at its end.
C23_NoSplitStat ==
    [][(DirRead /\ resp'.type = "Rread")
          => \A i \in DOMAIN resp'.data :
                 resp'.data[i].from = 0 /\ resp'.data[i].to = resp'.data[i].len]_vars

\* the Tread is on a directory handle that was opened for reading
ReadableDirRead == DirRead /\ Fids[req'.fid].mode % 4 \in {OREAD, ORDWR}

\* C24: on a directory handle a Tread at offset 0 always succeeds and returns the
\* start of a fresh enumeration of the children; a Tread at another offset
\* succeeds only when the offset is the cursor the previous read left, and is
\* otherwise refused with "can only seek to 0 on directory", the cursor unmoved.
C24_DirSeekPolicy ==
    [][ReadableDirRead =>
          /\ req'.offset = 0 =>
                /\ resp'.type = "Rread"
                /\ resp'.data = Window(Buffer(ents, handles[Fids[req'.fid].open].e), 0, resp'.count)
                /\ handles'[Fids[req'.fid].open].offset = resp'.count
          /\ (req'.offset # 0 /\ resp'.type = "Rread") =>
                req'.offset = handles[Fids[req'.fid].open].offset
          /\ (req'.offset # 0 /\ req'.offset # handles[Fids[req'.fid].open].offset) =>
                /\ resp' = Rerror("can only seek to 0 on directory")
                /\ handles' = Purge(handles)]_vars

\* the entity behind the handle a fid holds
HandleEnt(fid) == handles[Fids[fid].open].e

\* the Twrite is served on a file handle that was opened OWRITE or ORDWR
FileWriteServed(fid, offset, data) ==
    /\ Serve(TWrite(FirstTag, fid, offset, data), MaxIOReqs)
    /\ fid \in DOMAIN Fids
    /\ Fids[fid].open # NoHandle
    /\ Fids[fid].mode \in {OWRITE, ORDWR}
    /\ ~ents[HandleEnt(fid)].dir

\* C25: a Twrite on a file handle open for writing whose data ends beyond the
\* current length, at any offset, is answered Rwrite with count = len(data);
\* then the file is offset + len(data) long, holds the data at the offset and
\* its old bytes before the offset, and Tstat reports the new length.
C25_WriteExtends ==
    [][\A fid \in IOFids, offset \in WriteOffsets, data \in WriteData :
          (/\ FileWriteServed(fid, offset, data)
           /\ offset + Len(data) > Len(ents[HandleEnt(fid)].content))
          => /\ resp' = Rwrite(Len(data))
             /\ Len(ents'[HandleEnt(fid)].content) = offset + Len(data)
             /\ SubSeq(ents'[HandleEnt(fid)].content, offset + 1, offset + Len(data)) = data
             /\ \A i \in 1..offset :
                    i <= Len(ents[HandleEnt(fid)].content)
                       => ents'[HandleEnt(fid)].content[i] = ents[HandleEnt(fid)].content[i]
             /\ Stat(ents', HandleEnt(fid)).length = offset + Len(data)]_vars

\* C26: every Twrite on a file whose mode has DMAPPEND set, at whatever offset,
\* puts its data at the end of the file: the old content stays and the length
\* grows by len(data).
C26_AppendOnly ==
    [][\A fid \in IOFids, offset \in WriteOffsets, data \in WriteData :
          (/\ FileWriteServed(fid, offset, data)
           /\ DMAPPEND \in Stat(ents, HandleEnt(fid)).mode)
          => /\ resp' = Rwrite(Len(data))
             /\ ents'[HandleEnt(fid)].content = ents[HandleEnt(fid)].content \o data]_vars

\* ------------------------------------------------------- claims on Twstat
\* the entity a fid stands at
FidEnt(fid) == Current(arrays, Fids[fid].location)

\* what the server does with Twstat(fid, nstat) in the current state
WStat(fid, nstat) == DoWriteStat(Fids, arrays, ents, Purge(handles), fid, nstat)

\* the Twstat is answered with an error and no entity is changed
Refused(res) == res.reply.type = "Rerror" /\ res.ents = ents /\ ~res.panic

\* nstat asks for another type, dev, atime, length or muid than ostat has
Forbidden(ostat, nstat) ==
    \/ nstat.type # NoNum /\ nstat.type # ostat.type
    \/ nstat.dev # NoNum /\ nstat.dev # ostat.dev
    \/ nstat.atime # NoNum /\ nstat.atime # ostat.atime
    \/ nstat.length # NoNum /\ nstat.length # ostat.length
    \/ nstat.muid # "" /\ nstat.muid # ostat.muid

\* nstat with its five immutable fields left alone
Allowed(nstat) ==
    [nstat EXCEPT !.type = NoNum, !.dev = NoNum, !.atime = NoNum, !.length = NoNum, !.muid = ""]

IllegalErrors ==
    {"it is illegal to modify type", "it is illegal to modify dev",
     "it is illegal to modify atime", "change of not permitted",
     "it is illegal to modify muid"}

ModeAsked(fid, nstat) == nstat.mode # Bits32 /\ nstat.mode # Stat(ents, FidEnt(fid)).mode

\* C28: in every state, a Twstat that asks for another mode is refused, no entity
\* changed, when the fid's user is not the owner of the entity; asked by the
\* owner, a change of the mode alone succeeds, and whenever the Twstat
\* succeeds the mode becomes (old mode & DMDIR) | (new mode & ~DMDIR): a
\* directory stays a directory and a file a file.
C28_ModeChange ==
    \A fid \in DOMAIN Fids, nstat \in StatDeltas :
        ModeAsked(fid, nstat)
        => /\ Fids[fid].username # ents[FidEnt(fid)].user => Refused(WStat(fid, nstat))
           /\ Fids[fid].username = ents[FidEnt(fid)].user
              => /\ nstat = [NoStat EXCEPT !.mode = nstat.mode]
                    => WStat(fid, nstat).reply = Reply("Rwstat")
                 /\ WStat(fid, nstat).reply = Reply("Rwstat")
                    => /\ Stat(WStat(fid, nstat).ents, FidEnt(fid)).mode
                            = (Stat(ents, FidEnt(fid)).mode \cap {DMDIR})
                                 \cup (nstat.mode \ {DMDIR})
                       /\ WStat(fid, nstat).ents[FidEnt(fid)].dir = ents[FidEnt(fid)].dir

\* the owner of file f has set its mode with a Twstat that asked for
\* DMDIR|0777: f is a file of mode 0777
C28_Witness ==
    /\ req.op = "wstat"
    /\ resp = Reply("Rwstat")
    /\ Stat(ents, 2).mode = Octal777

\* nstat asks for another name than the entity of fid has
NameAsked(fid, nstat) == nstat.name # "" /\ nstat.name # Stat(ents, FidEnt(fid)).name

\* the directories that hold entity e
Holders(E, e) == {d \in DOMAIN E : \E n \in DOMAIN E[d].tree : E[d].tree[n] = e}

\* C29: in every state, a Twstat that asks for another name is refused, every
\* name unchanged, when the fid stands at the root of the session (however it
\* walked there), when the directory holding the entity has a child of that
\* name, or when the fid's user may not write to that directory; when it
\* succeeds, a walk from that directory finds the entity under the new name
\* and no longer under the old one.
C29_Rename ==
    \A fid \in DOMAIN Fids, nstat \in StatDeltas :
        NameAsked(fid, nstat)
        => /\ FidEnt(fid) = Roots[Fids[fid].service] => Refused(WStat(fid, nstat))
           /\ \A d \in Holders(ents, FidEnt(fid)) :
                 /\ nstat.name \in DOMAIN ents[d].tree => Refused(WStat(fid, nstat))
                 /\ ~CanOpen(ents, d, Fids[fid].username, OWRITE) => Refused(WStat(fid, nstat))
                 /\ WStat(fid, nstat).reply = Reply("Rwstat")
                    => /\ DirWalk(WStat(fid, nstat).ents, d, ents[d].user, nstat.name)
                             = [err |-> FALSE, found |-> TRUE, e |-> FidEnt(fid)]
                       /\ ~DirWalk(WStat(fid, nstat).ents, d, ents[d].user,
                                   Stat(ents, FidEnt(fid)).name).found

\* ----------------------------------------------------- claims on Qid.path
\* no two entities of E, in the tree or removed from it, have the same Qid.path
UniquePaths(E) ==
    \A e1, e2 \in DOMAIN E : e1 # e2 => Qid(E, e1).path # Qid(E, e2).path

\* C30: through every create and remove, any two distinct entities, and so any
\* two live ones, have different Qid.path values, and the Qid.path of an
\* entity never changes.
C30_QidPathUnique ==
    [][/\ UniquePaths(ents)
       /\ UniquePaths(ents')
       /\ \A e \in DOMAIN ents : Qid(ents', e).path = Qid(ents, e).path]_vars

\* an entity was created and then removed: it is in no directory, and the four
\* entities the server started with are all still in the tree
C30_Witness ==
    /\ req.op = "remove"
    /\ \E e \in DOMAIN ents : e \notin DOMAIN InitEnts /\ Holders(ents, e) = {}
    /\ \A e \in DOMAIN InitEnts \ {0} : Holders(ents, e) # {}

\* ------------------------------------------- claims on Twstat at the root
\* C39: in every state, every Twstat on a fid whose path is the root alone is
\* answered, with Rwstat or with Rerror: the handler does not fail on the
\* parent directory that such a fid does not have, also not when the Twstat
\* asks for another uid, gid or mtime.
C39_RootWstatAnswered ==
    \A fid \in DOMAIN Fids, nstat \in StatDeltas :
        Fids[fid].location.len = 1
        => /\ ~WStat(fid, nstat).panic
           /\ WStat(fid, nstat).reply.type \in {"Rwstat", "Rerror"}

\* ------------------------------------------------ claims on failed Tcreate
\* C40: a Tcreate answered with Rerror, whatever the reason, leaves the
\* children of every directory as they were and leaves the fid as it was:
\* no handle opened on it, at the path it had.
C40_FailedCreateAtomic ==
    [][(CreateServed /\ resp'.type = "Rerror")
          => /\ \A d \in DOMAIN ents : ents'[d].tree = ents[d].tree
             /\ Fids'[req'.fid].open = Fids[req'.fid].open
             /\ Path(arrays', Fids'[req'.fid].location) = Path(arrays, Fids[req'.fid].location)]_vars

\* ------------------------------------------------- claims on child names
\* the names, as Tstat and a directory read report them, of the children of d
ChildNames(E, d) == {E[E[d].tree[n]].name : n \in DOMAIN E[d].tree}

\* no directory of E has two children of one name
UniqueNames(E) ==
    \A d \in DOMAIN E : Cardinality(ChildNames(E, d)) = Cardinality(DOMAIN E[d].tree)

\* C37: in every state no directory has two children of the same name, no Twstat
\* makes it so, and a Tcreate of a name that a child of the directory has is
\* refused and changes nothing.
C37_UniqueChildNames ==
    /\ UniqueNames(ents)
    /\ \A fid \in DOMAIN Fids, nstat \in StatDeltas : UniqueNames(WStat(fid, nstat).ents)
    /\ \A fid \in DOMAIN Fids :
          (Fids[fid].open = NoHandle /\ ents[FidEnt(fid)].dir)
          => \A name \in ChildNames(ents, FidEnt(fid)) :
                Refused(DoCreate(Fids, arrays, ents, Purge(handles), fid, name,
                                 BitsOf(6 * 64 + 4 * 8 + 4), OREAD))

\* --------------------------------------------- claims on '..' from a file
\* what the server does with Twalk(fid, newfid, [".."]) in the current state
WalkUp(fid, newfid) == DoWalk(Fids, arrays, ents, Purge(handles), fid, newfid, <<"..">>)

\* C34: in every state, a Twalk with the names [".."] from an unopened fid that
\* is bound to a regular file, to an unbound newfid, is answered Rwalk with
\* the qid of the directory the file is in, and binds newfid to the path of
\* the fid without its last element.
C34_DotDotFromFile ==
    \A fid \in DOMAIN Fids, newfid \in FidSet \ DOMAIN Fids :
        (/\ Fids[fid].open = NoHandle
         /\ ~ents[FidEnt(fid)].dir
         /\ Fids[fid].location.len > 1)
        => /\ WalkUp(fid, newfid).reply
                 = ReplyQids("Rwalk", <<Qid(ents, FilePathParent(arrays, Fids[fid].location))>>)
           /\ newfid \in DOMAIN WalkUp(fid, newfid).Fids
           /\ Path(WalkUp(fid, newfid).arrays, WalkUp(fid, newfid).Fids[newfid].location)
                 = SubSeq(Path(arrays, Fids[fid].location), 1, Fids[fid].location.len - 1)

\* --------------------------------------------- claims on tag reuse
\* the request of slot t2 reuses the tag of the request of slot t1, which a
\* Tflush was aimed at and whose Rflush was written before t2 was sent
Reuse(t1, t2) ==
    /\ t1 < t2
    /\ tasks[t2].pc # "idle"
    /\ tasks[t1].req.tag = tasks[t2].req.tag
    /\ tasks[t1].target \notin {0, t1}
    /\ tasks[t1].target < t2
    /\ tasks[tasks[t1].target].sent

\* C35: once a request R2 reuses the tag of a flushed request R1 after the
\* Rflush, no step writes a response for R1, and R2, when no Tflush is aimed at
\* it and its task has run to its end, has had its response.
C35_NoStaleResponse ==
    [][\A t1 \in TaskIds, t2 \in TaskIds :
          Reuse(t1, t2) =>
              /\ ~tasks[t1].sent => ~tasks'[t1].sent
              /\ (tasks'[t2].pc = "done" /\ tasks'[t2].target = 0) => tasks'[t2].sent]_vars

\* the first half of C35 alone
C35_StaleHalf ==
    [][\A t1 \in TaskIds, t2 \in TaskIds :
          (Reuse(t1, t2) /\ ~tasks[t1].sent) => ~tasks'[t1].sent]_vars

\* the tags of the handlers that are running: registered and not yet through
\* their deferred flushed
Running == {tasks[t].req.tag : t \in {u \in TaskIds : tasks[u].pc \in {"registered", "executed"}}}

\* C36: in every state the live-tag set holds only tags of running handlers,
\* and it is empty when no handler is running.
C36_NoTagLeak ==
    /\ tags \subseteq Running
    /\ (\A t \in TaskIds : tasks[t].pc \in {"idle", "issued", "done"}) => tags = {}

\* every slot has run a task to its end, one of them flushed and silent, one
\* answered, and no tag is left
C36_Witness ==
    /\ \A t \in TaskIds : tasks[t].pc = "done"
    /\ \E t \in TaskIds : tasks[t].target \notin {0, t} /\ ~tasks[t].sent
    /\ \E t \in TaskIds : tasks[t].req.op # "flush" /\ tasks[t].sent
    /\ tags = {}

\* --------------------------------------------- claims on directory handles
\* C33: a Tread at a non-zero offset on a directory handle that is answered
\* Rread leaves the buffer of the handle as it was and returns the bytes of
\* that buffer from the offset on, whatever was created in or removed from the
\* directory since the buffer was built.
C33_SnapshotFrozen ==
    [][(ReadableDirRead /\ req'.offset # 0 /\ resp'.type = "Rread")
          => /\ handles'[Fids[req'.fid].open].buffer = handles[Fids[req'.fid].open].buffer
             /\ resp'.data = Window(handles[Fids[req'.fid].open].buffer,
                                    req'.offset, req'.offset + resp'.count)]_vars

\* C38: in every state the cursor of an open directory handle is at most the
\* length of the buffer the handle holds.
C38_CursorInBounds ==
    \A h \in HandleIds :
        (handles[h].st = "open" /\ ents[handles[h].e].dir)
        => handles[h].offset <= BufferLen(handles[h].buffer)

\* --------------------------------------------- claims on the client's Write
\* C31: every Twrite that Write sends after its first carries bytes of the
\* content that were not written yet: once the offset has reached the length
\* of the content no further Twrite is sent.
C31_WriteTerminates ==
    [][(client.pc = "loop" /\ client'.writes = client.writes + 1)
          => (client.writes = 0 \/ client.offset < Len(client.content))]_vars

\* ---------------------------------------------------- the lock model
\* Tread on fid 0, which holds a handle on the root directory, and Topen on
\* fid 1, a clone of it, run as tasks of one session, a step per lock
\* operation.  The position of a task says which locks it holds:
\*   "fid"     fs.fidLock read-locked (Read 462, Open 343)
\*   "state"   and the State of its fid locked: Read s.RLock (469), Open s.Lock (350)
\*   "seek"    Read in RAMOpenTree.Seek, t read-locked
\*   "update"  Read in ot.update() called by Seek, t read-locked a second time
\*   "sought"  Seek has returned, t released
\*   "read"    Read in RAMOpenTree.Read, t read-locked
\*   "tree"    Open in RAMTree.Open, holding the lock of the child map
\*   "twait"   Open has called t.Lock() and waits for the readers to leave
\*   "tlocked" Open holds t locked
\* fs.register and the deferred fs.flushed take tagLock alone; they are the
\* Register and Finish of the task model and are left out here.
AttachL ==
    /\ ~crashed
    /\ Serve(TAttach(FirstTag, 0, "glen", "main"), MaxLockReqs)

WalkL ==
    /\ ~crashed
    /\ Serve(TWalk(FirstTag, 0, 1, <<>>), MaxLockReqs)

OpenL ==
    /\ ~crashed
    /\ Serve(TOpen(FirstTag, 0, OREAD), MaxLockReqs)

LockRequests == {TRead(FirstTag, 0, 0, Max(ReadCounts)), TOpen(FirstTag, 1, OREAD)}

\* the tasks holding the lock of the State of fid
StateHolders(fid) ==
    {u \in TaskIds : tasks[u].req.fid = fid /\ tasks[u].pc \notin {"idle", "fid", "done"}}

\* sync.RWMutex of the directory: a Lock that was called, granted or not, keeps
\* every later RLock waiting; Lock is granted when no reader is left
TWriter == \E u \in TaskIds : tasks[u].pc \in {"twait", "tlocked"}
TReading == \E u \in TaskIds : tasks[u].pc \in {"seek", "update", "read"}

\* the handler is entered with fid 0 open on a directory and fid 1 bound
CanEnter(t) ==
    /\ tasks[t].pc = "idle"
    /\ \A u \in TaskIds : u < t => tasks[u].pc # "idle"
    /\ {0, 1} \subseteq DOMAIN Fids
    /\ Fids[0].open # NoHandle

CanLockState(t) ==
    /\ tasks[t].pc = "fid"
    /\ IF tasks[t].req.op = "read"
       THEN \A u \in StateHolders(tasks[t].req.fid) : tasks[u].req.op = "read"
       ELSE StateHolders(tasks[t].req.fid) = {}

CanRLock(t, pc) == tasks[t].req.op = "read" /\ tasks[t].pc = pc /\ ~TWriter

\* what a task can do in the current state
CanStep(t) ==
    \/ CanEnter(t)
    \/ CanLockState(t)
    \/ CanRLock(t, "state") \/ CanRLock(t, "seek") \/ CanRLock(t, "sought")
    \/ tasks[t].pc \in {"update", "read", "tree", "tlocked"}
    \/ tasks[t].req.op = "open" /\ tasks[t].pc = "state"
    \/ tasks[t].pc = "twait" /\ ~TReading

LockFrame == UNCHANGED <<Fids, arrays, ents, handles, tags, crashed, req, resp, served, wire, MaxSize, negotiated, client>>

\* fs.fidLock.RLock()
Enter(t) ==
    /\ ~crashed
    /\ CanEnter(t)
    /\ \E r \in LockRequests : tasks' = [tasks EXCEPT ![t] = [NoTask EXCEPT !.pc = "fid", !.req = r]]
    /\ LockFrame

\* s.RLock() of Read, s.Lock() of Open
LockState(t) ==
    /\ ~crashed
    /\ CanLockState(t)
    /\ tasks' = [tasks EXCEPT ![t].pc = "state"]
    /\ LockFrame

\* RAMOpenTree.Seek: ot.t.RLock()
SeekLock(t) ==
    /\ ~crashed
    /\ CanRLock(t, "state")
    /\ tasks' = [tasks EXCEPT ![t].pc = "seek"]
    /\ LockFrame

\* RAMOpenTree.update, called by Seek with the read lock held: ot.t.RLock()
UpdateLock(t) ==
    /\ ~crashed
    /\ CanRLock(t, "seek")
    /\ tasks' = [tasks EXCEPT ![t].pc = "update"]
    /\ LockFrame

\* update and Seek return: both deferred ot.t.RUnlock()
SeekReturn(t) ==
    /\ ~crashed
    /\ tasks[t].pc = "update"
    /\ tasks' = [tasks EXCEPT ![t].pc = "sought"]
    /\ LockFrame

\* RAMOpenTree.Read: ot.t.RLock()
ReadLock(t) ==
    /\ ~crashed
    /\ CanRLock(t, "sought")
    /\ tasks' = [tasks EXCEPT ![t].pc = "read"]
    /\ LockFrame

\* Read returns and every lock of the task is released; the Tread takes effect
ReadReturn(t) ==
    LET res == DoRead(Fids, arrays, ents, Purge(handles), MaxSize, tasks[t].req.fid,
                      tasks[t].req.offset, tasks[t].req.count, FALSE) IN
    /\ ~crashed
    /\ tasks[t].pc = "read"
    /\ Install(res)
    /\ tasks' = [tasks EXCEPT ![t].pc = "done", ![t].reply = res.reply]
    /\ UNCHANGED <<tags, req, resp, served, wire, MaxSize, negotiated, client>>

\* Open, lines 353-362: "already open" returns at once, else RAMTree.Open locks
\* the child map
OpenTree(t) ==
    /\ ~crashed
    /\ tasks[t].req.op = "open"
    /\ tasks[t].pc = "state"
    /\ tasks' = IF Fids[tasks[t].req.fid].open # NoHandle
                THEN [tasks EXCEPT ![t].pc = "done", ![t].reply = Rerror("already open")]
                ELSE [tasks EXCEPT ![t].pc = "tree"]
    /\ LockFrame

\* RAMTree.Open: permCheck, then t.Lock() is called
LockCall(t) ==
    /\ ~crashed
    /\ tasks[t].pc = "tree"
    /\ tasks' = IF ~CanOpen(ents, FidEnt(tasks[t].req.fid), Fids[tasks[t].req.fid].username,
                           tasks[t].req.mode)
                THEN [tasks EXCEPT ![t].pc = "done", ![t].reply = Rerror("access denied")]
                ELSE [tasks EXCEPT ![t].pc = IF TReading THEN "twait" ELSE "tlocked"]
    /\ LockFrame

\* the last reader has left: t.Lock() returns
LockGranted(t) ==
    /\ ~crashed
    /\ tasks[t].pc = "twait"
    /\ ~TReading
    /\ tasks' = [tasks EXCEPT ![t].pc = "tlocked"]
    /\ LockFrame

\* t.opens++, RAMTree.Open and Open return, every lock of the task is released
OpenReturn(t) ==
    LET res == DoOpen(Fids, arrays, ents, Purge(handles), tasks[t].req.fid, tasks[t].req.mode) IN
    /\ ~crashed
    /\ tasks[t].pc = "tlocked"
    /\ Install(res)
    /\ tasks' = [tasks EXCEPT ![t].pc = "done", ![t].reply = res.reply]
    /\ UNCHANGED <<tags, req, resp, served, wire, MaxSize, negotiated, client>>

NextLock ==
    \/ AttachL \/ WalkL \/ OpenL
    \/ \E t \in TaskIds :
          \/ Enter(t) \/ LockState(t) \/ SeekLock(t) \/ UpdateLock(t) \/ SeekReturn(t)
          \/ ReadLock(t) \/ ReadReturn(t) \/ OpenTree(t) \/ LockCall(t) \/ LockGranted(t)
          \/ OpenReturn(t)

\* the Treads and Topens of one session under any interleaving of their lock steps
SpecLock == Init /\ [][NextLock]_vars

\* --------------------------------------------- claims on locks
\* C32: in every state in which a handler has started and not returned, some
\* task can take a step: no set of tasks waits for locks that only tasks of
\* the set can release.
C32_NoDeadlock ==
    (\E t \in TaskIds : tasks[t].pc \notin {"idle", "done"})
    => \E t \in TaskIds : tasks[t].pc \notin {"idle", "done"} /\ CanStep(t)
====
